---- MODULE Spec2Model ----
(***************************************************************************)
(* A state-machine model of the oxide shell's execution engine: the shell  *)
(* environment (shellenv.rs), the builtins cd / alias / pwd / echo / test  *)
(* (builtin.rs) and the subshell executor (execute/subshell.rs).           *)
(*                                                                         *)
(* Strings are sequences of one-character strings, so that quote           *)
(* stripping, trimming and joining are computed as the code computes them. *)
(***************************************************************************)
EXTENDS Integers, Sequences, FiniteSets, TLC

VARIABLES
  shellenv,   \* the ShellEnv struct: flags, env_vars, variables, aliases, functions, parameters
  cwd,        \* the process's current working directory (kernel state)
  last,       \* the last operation called: [op, key, val, ret, ...]
  panicked,   \* TRUE once an unwrap() has panicked: the shell process is gone
  subPc,      \* "idle", or "body" while the body of an internal subshell runs
  snapshot    \* the clone handle_internal_subshell took on entry

subVars == <<subPc, snapshot>>

VARIABLES
  fdTable,    \* the shell process's descriptor table: descriptor -> open file
  out,        \* what the last builtin call wrote: a sequence of [by, file, text]
  procs,      \* the kernel's process table: pid -> [pgid, kind, st]
  job,        \* the job last handed to the job table or the foreground handler
  frame,      \* the builtin or executor call suspended in handle_fg, if any
  image       \* "shell", or "script" once execve replaced the shell's own image

procVars == <<fdTable, out, procs, job, frame, image>>

VARIABLES
  promptPc,   \* where prompt::run stands: "idle", "init", "hist", "expand", "readline", "returned", "exited"
  inPrompt,   \* TRUE between enter_prompt and leave_prompt
  history     \* the lines of the history file, oldest first

promptVars == <<promptPc, inPrompt, history>>

\* What the operations of ShellEnv leave alone
nonEnv == <<subVars, procVars, promptVars>>

vars == <<shellenv, cwd, last, panicked, subVars, procVars, promptVars>>

----------------------------------------------------------------------------
(* Bounds of the model *)

MaxValLen == 2

----------------------------------------------------------------------------
(* Strings *)

DQ == "\""

Chars == {DQ, "a"}

\* All strings over cs of length at most n
StringsUpTo(cs, n) == UNION {[1..k -> cs] : k \in 0..n}

Values == StringsUpTo(Chars, MaxValLen)

Str1(c) == <<c>>

None == [none |-> TRUE]

Some(v) == [some |-> v]

IsSome(o) == o # None

\* HashMap::insert / HashMap::remove / HashMap::get
MapInsert(m, k, v) == [x \in DOMAIN m \cup {k} |-> IF x = k THEN v ELSE m[x]]

MapRemove(m, k) == [x \in DOMAIN m \ {k} |-> m[x]]

MapGet(m, k) == IF k \in DOMAIN m THEN Some(m[k]) ELSE None

EmptyMap == [x \in {} |-> <<>>]

StartsWithDQ(v) == Len(v) > 0 /\ v[1] = DQ

EndsWithDQ(v) == Len(v) > 0 /\ v[Len(v)] = DQ

\* value.strip_prefix('"').unwrap() then value.strip_suffix('"').unwrap(),
\* under the guard starts_with('"') && ends_with('"'): the second unwrap
\* panics when the value is the single character '"'.
StripPairPanics(v) == StartsWithDQ(v) /\ EndsWithDQ(v) /\ Len(v) = 1

StripPair(v) ==
  IF StartsWithDQ(v) /\ EndsWithDQ(v) /\ Len(v) >= 2
  THEN SubSeq(v, 2, Len(v) - 1)
  ELSE v

\* str::trim_matches(|ch| ch == '"'): drops every leading and trailing '"'
RECURSIVE TrimStartDQ(_)
TrimStartDQ(v) == IF StartsWithDQ(v) THEN TrimStartDQ(Tail(v)) ELSE v

RECURSIVE TrimEndDQ(_)
TrimEndDQ(v) == IF EndsWithDQ(v) THEN TrimEndDQ(SubSeq(v, 1, Len(v) - 1)) ELSE v

TrimMatchesDQ(v) == TrimEndDQ(TrimStartDQ(v))

----------------------------------------------------------------------------
(* ShellEnv: aliases, functions and flags *)

EnvFlags == {"NO_ALIAS", "NO_FUNC"}

LogicNames == {<<"f">>, <<"g">>}

Nodes == {"node1", "node2"}

GetAlias(env, key) ==
  IF "NO_ALIAS" \in env.flags THEN None ELSE MapGet(env.aliases, key)

GetFunction(env, name) == MapGet(env.functions, name)

SetAliasFails(env, key) == IsSome(GetFunction(env, key))

SetFunctionFails(env, name) == IsSome(GetAlias(env, name))

SetAlias(key, value) ==
  /\ ~panicked
  /\ IF SetAliasFails(shellenv, key)
     THEN /\ last' = [op |-> "set_alias", key |-> key, val |-> value, ret |-> "Err"]
          /\ UNCHANGED <<shellenv, panicked>>
     ELSE IF StripPairPanics(value)
     THEN /\ panicked' = TRUE
          /\ last' = [op |-> "set_alias", key |-> key, val |-> value, ret |-> "panic"]
          /\ UNCHANGED shellenv
     ELSE /\ shellenv' = [shellenv EXCEPT !.aliases = MapInsert(@, key, StripPair(value))]
          /\ last' = [op |-> "set_alias", key |-> key, val |-> value, ret |-> "Ok"]
          /\ UNCHANGED panicked
  /\ UNCHANGED <<cwd, nonEnv>>

RemoveAlias(key) ==
  /\ ~panicked
  /\ shellenv' = [shellenv EXCEPT !.aliases = MapRemove(@, key)]
  /\ last' = [op |-> "remove_alias", key |-> key, val |-> <<>>, ret |-> "Ok"]
  /\ UNCHANGED <<cwd, panicked, nonEnv>>

SetFunction(name, body) ==
  /\ ~panicked
  /\ IF SetFunctionFails(shellenv, name)
     THEN /\ last' = [op |-> "set_function", key |-> name, val |-> <<>>, ret |-> "Err"]
          /\ UNCHANGED shellenv
     ELSE /\ shellenv' = [shellenv EXCEPT !.functions = MapInsert(@, name, body)]
          /\ last' = [op |-> "set_function", key |-> name, val |-> <<>>, ret |-> "Ok"]
  /\ UNCHANGED <<cwd, panicked, nonEnv>>

RemoveFunction(name) ==
  /\ ~panicked
  /\ shellenv' = [shellenv EXCEPT !.functions = MapRemove(@, name)]
  /\ last' = [op |-> "remove_function", key |-> name, val |-> <<>>, ret |-> "Ok"]
  /\ UNCHANGED <<cwd, panicked, nonEnv>>

\* mod_flags with a closure that inserts or removes one flag
ModFlags(flag, on) ==
  /\ ~panicked
  /\ shellenv' = [shellenv EXCEPT !.flags = IF on THEN @ \cup {flag} ELSE @ \ {flag}]
  /\ last' = [op |-> "mod_flags", key |-> <<>>, val |-> <<>>, ret |-> "Ok"]
  /\ UNCHANGED <<cwd, panicked, nonEnv>>

----------------------------------------------------------------------------
(* ShellEnv: variables, env_vars and parameters *)

VarKeys == {<<"x">>, <<"1">>}

Digits == <<"0", "1", "2", "3", "4", "5", "6", "7", "8", "9">>

IsAsciiDigit(c) == \E i \in 1..10 : Digits[i] = c

\* usize::to_string
RECURSIVE NatToStr(_)
NatToStr(n) ==
  IF n < 10 THEN <<Digits[n + 1]>> ELSE NatToStr(n \div 10) \o <<Digits[(n % 10) + 1]>>

DigitVal(c) == (CHOOSE i \in 1..10 : Digits[i] = c) - 1

RECURSIVE StrToNat(_)
StrToNat(s) ==
  IF s = <<>> THEN 0 ELSE 10 * StrToNat(SubSeq(s, 1, Len(s) - 1)) + DigitVal(s[Len(s)])

GetParameter(env, key) == MapGet(env.parameters, key)

\* The keys of parameters that are decimal numbers
NumericKeys(params) ==
  {k \in DOMAIN params : k # <<>> /\ \A i \in 1..Len(k) : IsAsciiDigit(k[i])}

\* get_variable with the slip of consulting env_vars before variables
GetVariableEnvFirst(env, key) ==
  IF key \in DOMAIN env.env_vars THEN Some(env.env_vars[key])
  ELSE IF key \in DOMAIN env.variables THEN Some(env.variables[key])
  ELSE GetParameter(env, key)

GetVariable(env, key) ==
  IF key \in DOMAIN env.variables THEN Some(env.variables[key])
  ELSE IF key \in DOMAIN env.env_vars THEN Some(env.env_vars[key])
  ELSE GetParameter(env, key)

\* get_cvars: one "key=value" string for each entry of env_vars; the order
\* of a HashMap's entries is not fixed, so the result is taken as a set
get_cvars(env) ==
  {key \o <<"=">> \o env.env_vars[key] : key \in DOMAIN env.env_vars}

\* The environment after set_variable(key, value), when it does not panic
SetVariableEnv(env, key, value) ==
  [env EXCEPT !.variables = MapInsert(@, key, StripPair(value))]

\* export_variable with the slip of deleting an emptied name from env_vars only
ExportVariableEnvKeepsShellVar(env, key, value) ==
  LET v == TrimMatchesDQ(value) IN
  IF v = <<>>
  THEN [env EXCEPT !.env_vars = MapRemove(@, key)]
  ELSE [env EXCEPT !.variables = MapInsert(@, key, v), !.env_vars = MapInsert(@, key, v)]

\* The environment after export_variable(key, value)
ExportVariableEnv(env, key, value) ==
  LET v == TrimMatchesDQ(value) IN
  IF v = <<>>
  THEN [env EXCEPT !.variables = MapRemove(@, key), !.env_vars = MapRemove(@, key)]
  ELSE [env EXCEPT !.variables = MapInsert(@, key, v), !.env_vars = MapInsert(@, key, v)]

SetVariable(key, value) ==
  /\ ~panicked
  /\ IF StripPairPanics(value)
     THEN /\ panicked' = TRUE
          /\ last' = [op |-> "set_variable", key |-> key, val |-> value, ret |-> "panic"]
          /\ UNCHANGED shellenv
     ELSE /\ shellenv' = SetVariableEnv(shellenv, key, value)
          /\ last' = [op |-> "set_variable", key |-> key, val |-> value, ret |-> "Ok"]
          /\ UNCHANGED panicked
  /\ UNCHANGED <<cwd, nonEnv>>

ExportVariable(key, value) ==
  /\ ~panicked
  /\ shellenv' = ExportVariableEnv(shellenv, key, value)
  /\ last' = [op |-> "export_variable", key |-> key, val |-> value, ret |-> "Ok"]
  /\ UNCHANGED <<cwd, panicked, nonEnv>>

RemoveVariable(key) ==
  /\ ~panicked
  /\ shellenv' = [shellenv EXCEPT !.variables = MapRemove(@, key)]
  /\ last' = [op |-> "remove_variable", key |-> key, val |-> <<>>, ret |-> "Ok"]
  /\ UNCHANGED <<cwd, panicked, nonEnv>>

AT == <<"@">>

SP == " "

\* The new value of "@" computed by set_parameter for a key that starts with a digit
AppendPosParam(env, value) ==
  LET pos_params == IF AT \in DOMAIN env.parameters THEN env.parameters[AT] ELSE <<>> IN
  IF pos_params = <<>> THEN value ELSE pos_params \o <<SP>> \o value

\* The environment after set_parameter(key, value), for a non-empty key
SetParameterEnv(env, key, value) ==
  LET withAt == IF IsAsciiDigit(key[1])
                THEN MapInsert(MapRemove(env.parameters, AT), AT, AppendPosParam(env, value))
                ELSE env.parameters
  IN [env EXCEPT !.parameters = MapInsert(withAt, key, value)]

\* The parameters after the loop of clear_pos_parameters, entered at index
RECURSIVE ClearFrom(_, _)
ClearFrom(params, index) ==
  IF NatToStr(index) \in DOMAIN params
  THEN ClearFrom(MapRemove(params, NatToStr(index)), index + 1)
  ELSE params

ParamKeys == {<<"1">>, <<"2">>, <<"x">>}

ParamVals == {<<"a">>, <<"b">>}

MaxAtLen == 3

SetParameter(key, value) ==
  /\ ~panicked
  /\ IF key = <<>>
     THEN \* key.chars().next().unwrap() on an empty key
          /\ panicked' = TRUE
          /\ last' = [op |-> "set_parameter", key |-> key, val |-> value, ret |-> "panic"]
          /\ UNCHANGED shellenv
     ELSE /\ IsAsciiDigit(key[1]) => Len(AppendPosParam(shellenv, value)) <= MaxAtLen
          /\ shellenv' = SetParameterEnv(shellenv, key, value)
          /\ last' = [op |-> "set_parameter", key |-> key, val |-> value, ret |-> "Ok"]
          /\ UNCHANGED panicked
  /\ UNCHANGED <<cwd, nonEnv>>

ClearPosParameters ==
  /\ ~panicked
  /\ shellenv' = [shellenv EXCEPT !.parameters = ClearFrom(@, 1)]
  /\ last' = [op |-> "clear_pos_parameters", key |-> <<>>, val |-> <<>>, ret |-> "Ok"]
  /\ UNCHANGED <<cwd, panicked, nonEnv>>

----------------------------------------------------------------------------
(* ShellEnv: shell options *)

\* init_shopts: the options every shell starts with
init_shopts ==
  <<"d", "o", "t", "g", "l", "o", "b">> :> 0
  @@ <<"t", "r", "u", "n", "c", "_", "p", "r", "o", "m", "p", "t", "_", "p", "a", "t", "h">> :> 4
  @@ <<"i", "n", "t", "_", "c", "o", "m", "m", "e", "n", "t", "s">> :> 1
  @@ <<"h", "i", "s", "t", "_", "i", "g", "n", "o", "r", "e", "_", "d", "u", "p", "e", "s">> :> 1
  @@ <<"m", "a", "x", "_", "h", "i", "s", "t">> :> 1000
  @@ <<"e", "d", "i", "t", "_", "m", "o", "d", "e">> :> 1
  @@ <<"c", "o", "m", "p", "_", "l", "i", "m", "i", "t">> :> 100
  @@ <<"a", "u", "t", "o", "_", "h", "i", "s", "t">> :> 1
  @@ <<"p", "r", "o", "m", "p", "t", "_", "h", "i", "g", "h", "l", "i", "g", "h", "t">> :> 1
  @@ <<"t", "a", "b", "_", "s", "t", "o", "p">> :> 4
  @@ <<"b", "e", "l", "l", "_", "s", "t", "y", "l", "e">> :> 1

\* An option name that init_shopts does not set
NoSuchOpt == <<"n", "o", "s", "u", "c", "h">>

ShoptNames == DOMAIN init_shopts \cup {NoSuchOpt}

ShoptValues == {0, 1}

\* get_shopt(key): self.shopts[key], which panics when the key is absent
GetShopt(key) ==
  /\ ~panicked
  /\ IF key \in DOMAIN shellenv.shopts
     THEN /\ last' = [op |-> "get_shopt", key |-> key, val |-> <<>>, ret |-> "Ok",
                      got |-> shellenv.shopts[key]]
          /\ UNCHANGED panicked
     ELSE /\ panicked' = TRUE
          /\ last' = [op |-> "get_shopt", key |-> key, val |-> <<>>, ret |-> "panic"]
  /\ UNCHANGED <<shellenv, cwd, nonEnv>>

\* set_shopt(key, value)
SetShopt(key, value) ==
  /\ ~panicked
  /\ shellenv' = [shellenv EXCEPT !.shopts = MapInsert(@, key, value)]
  /\ last' = [op |-> "set_shopt", key |-> key, val |-> value, ret |-> "Ok"]
  /\ UNCHANGED <<cwd, panicked, nonEnv>>

----------------------------------------------------------------------------
(* Directory changes: ShellEnv::change_dir and the cd builtin *)

PWD == <<"P", "W", "D">>

OLDPWD == <<"O", "L", "D", "P", "W", "D">>

RootDir == <<"/">>

HomeDir == <<"h">>

TmpDir == <<"t">>

\* The file system: each path that names a directory, with the canonical
\* path env::current_dir() reports after a chdir to it. <<"l">> is a
\* symbolic link to TmpDir; any other path does not exist.
Canon ==
  [p \in {RootDir, HomeDir, TmpDir, <<"l">>} |-> IF p = <<"l">> THEN TmpDir ELSE p]

Paths == DOMAIN Canon \cup {<<"n">>}

\* env::set_current_dir(path) succeeds
ChdirOk(path) == path \in DOMAIN Canon

\* PWD and OLDPWD as held by both stores
DirVars(env) ==
  [pwd_var |-> MapGet(env.variables, PWD),
   pwd_env |-> MapGet(env.env_vars, PWD),
   oldpwd_var |-> MapGet(env.variables, OLDPWD),
   oldpwd_env |-> MapGet(env.env_vars, OLDPWD),
   pwd |-> GetVariable(env, PWD)]

\* change_dir up to the call of set_current_dir: PWD is taken out of
\* env_vars and exported as OLDPWD
ChangeDirBefore(env) ==
  LET old_pwd == IF PWD \in DOMAIN env.env_vars THEN env.env_vars[PWD] ELSE <<>> IN
  ExportVariableEnv([env EXCEPT !.env_vars = MapRemove(@, PWD)], OLDPWD, old_pwd)

ChangeDir(path) ==
  /\ ~panicked
  /\ IF ChdirOk(path)
     THEN /\ cwd' = Canon[path]
          /\ shellenv' = ExportVariableEnv(ChangeDirBefore(shellenv), PWD, Canon[path])
          /\ last' = [op |-> "change_dir", key |-> path, val |-> <<>>, ret |-> "Ok",
                      pre |-> DirVars(shellenv)]
     ELSE /\ shellenv' = ChangeDirBefore(shellenv)
          /\ last' = [op |-> "change_dir", key |-> path, val |-> <<>>, ret |-> "Err",
                      pre |-> DirVars(shellenv)]
          /\ UNCHANGED cwd
  /\ UNCHANGED <<panicked, nonEnv>>

\* The arguments of cd: none, "-", or a path
CdArgs == {None, Some(<<"-">>)} \cup {Some(p) : p \in Paths}

\* new_pwd as cd computes it: OLDPWD from the exported variables for "-"
\* ("/" when unset), HOME from the process environment for no argument
CdTarget(env, arg) ==
  IF arg = None THEN HomeDir
  ELSE IF arg.some = <<"-">>
  THEN (IF OLDPWD \in DOMAIN env.env_vars THEN env.env_vars[OLDPWD] ELSE RootDir)
  ELSE arg.some

Cd(arg) ==
  /\ ~panicked
  /\ LET new_pwd == CdTarget(shellenv, arg) IN
     IF ChdirOk(new_pwd)
     THEN /\ cwd' = Canon[new_pwd]
          /\ shellenv' = ExportVariableEnv(shellenv, PWD, Canon[new_pwd])
          /\ last' = [op |-> "cd", key |-> new_pwd, val |-> <<>>, ret |-> "Ok",
                      pre |-> DirVars(shellenv)]
     ELSE /\ last' = [op |-> "cd", key |-> new_pwd, val |-> <<>>, ret |-> "Err",
                      pre |-> DirVars(shellenv)]
          /\ UNCHANGED <<shellenv, cwd>>
  /\ UNCHANGED <<panicked, nonEnv>>

----------------------------------------------------------------------------
(* The internal subshell: handle_internal_subshell *)

MaxArgs == 2

SubshArgvs == UNION {[1..n -> ParamVals] : n \in 0..MaxArgs}

\* reset_params: every positional parameter and "@" are dropped
ResetParams(env) ==
  [env EXCEPT !.parameters =
     [k \in DOMAIN @ \ (NumericKeys(@) \cup {AT}) |-> @[k]]]

\* pos_param_pushback: the argument becomes the next positional parameter
PosParamPushback(env, arg) ==
  SetParameterEnv(env, NatToStr(Cardinality(NumericKeys(env.parameters)) + 1), arg)

RECURSIVE PushArgv(_, _)
PushArgv(env, argv) ==
  IF argv = <<>> THEN env ELSE PushArgv(PosParamPushback(env, Head(argv)), Tail(argv))

\* handle_internal_subshell up to the call of exec_input. When
\* activate_redirs fails the `?` returns before anything else runs.
EnterInternalSubshell(argv, redirsOk) ==
  /\ ~panicked
  /\ subPc = "idle"
  /\ snapshot' = shellenv
  /\ IF redirsOk
     THEN /\ shellenv' = PushArgv(ResetParams(shellenv), argv)
          /\ subPc' = "body"
          /\ last' = [op |-> "exec_input", key |-> <<>>, val |-> <<>>, ret |-> "running"]
     ELSE /\ last' = [op |-> "handle_internal_subshell", key |-> <<>>, val |-> <<>>,
                      ret |-> "Err"]
          /\ UNCHANGED <<shellenv, subPc>>
  /\ UNCHANGED <<cwd, panicked, procVars, promptVars>>

\* The exit statuses a command leaves
ExitCodes == {0, 1}

\* A command, at the prompt or inside the subshell body, has finished and
\* left its exit status: set_code
SetCode(status) ==
  /\ ~panicked
  /\ shellenv' = [shellenv EXCEPT !.code = status]
  /\ last' = [op |-> "set_code", key |-> <<>>, val |-> <<>>, ret |-> "Ok"]
  /\ UNCHANGED <<cwd, panicked, nonEnv>>

\* exec_input returned Ok: `*slash = snapshot`, then exec_subshell's
\* set_code(0). `inner` is the status the body's last command left.
SubshellBodyOk ==
  /\ ~panicked
  /\ subPc = "body"
  /\ shellenv' = [snapshot EXCEPT !.code = 0]
  /\ subPc' = "idle"
  /\ last' = [op |-> "handle_internal_subshell", key |-> <<>>, val |-> <<>>, ret |-> "Ok",
              inner |-> shellenv.code]
  /\ UNCHANGED <<cwd, panicked, snapshot, procVars, promptVars>>

\* exec_input returned Err: the `?` returns it, the restore is skipped
SubshellBodyErr ==
  /\ ~panicked
  /\ subPc = "body"
  /\ subPc' = "idle"
  /\ last' = [op |-> "handle_internal_subshell", key |-> <<>>, val |-> <<>>, ret |-> "Err",
              inner |-> shellenv.code]
  /\ UNCHANGED <<shellenv, cwd, panicked, snapshot, procVars, promptVars>>

----------------------------------------------------------------------------
(* Descriptors and the redirection set (CmdRedirs) *)

Tty == "tty"

\* Descriptors 0, 1 and 2 of the shell, open on the terminal
StdFds == [fd \in 0..2 |-> Tty]

MaxFd == 8

\* The descriptor dup() and open() return: the lowest one not in use
LowestFree(table) == CHOOSE fd \in 0..MaxFd : fd \notin DOMAIN table /\ \A g \in 0..(fd - 1) : g \in DOMAIN table

CloseFds(table, fds) == [fd \in DOMAIN table \ fds |-> table[fd]]

\* A redirection record: descriptor fd is redirected to the file
Redirs == {<<>>, <<[fd |-> 1, file |-> "f1"]>>, <<[fd |-> 2, file |-> "f1"]>>}

NoRedirState == [saved |-> {}, acquired |-> {}]

\* activate() for one record: dup the source descriptor to save it, open
\* the target, dup2 the target onto the source descriptor
RECURSIVE Activate(_, _, _)
Activate(table, st, redirs) ==
  IF redirs = <<>> THEN [table |-> table, st |-> st]
  ELSE LET r == Head(redirs)
           save == LowestFree(table)
           t1 == MapInsert(table, save, table[r.fd])
           opened == LowestFree(t1)
           t2 == MapInsert(t1, opened, r.file)
           t3 == MapInsert(t2, r.fd, r.file)
       IN Activate(t3, [saved |-> st.saved \cup {save}, acquired |-> st.acquired \cup {opened}],
                   Tail(redirs))

\* close_all(): closes the descriptors acquired during activation, not the saved ones
CloseAll(table, st) == CloseFds(table, st.acquired)

\* The set going out of scope: the handles it still owns are closed
DropRedirs(table, st) == CloseFds(table, st.saved \cup st.acquired)

NL == "\n"

WriteTo(log, by, table, fd, text) ==
  Append(log, [by |-> by, file |-> table[fd], text |-> text])

----------------------------------------------------------------------------
(* The alias and pwd builtins *)

\* trim_quotes: the text between one surrounding pair of quotes
TrimQuotes(v) == StripPair(v)

AliasArg(kind, name, body) == [kind |-> kind, name |-> name, body |-> body]

AliasArgItems ==
  {AliasArg("arg_assign", <<"f">>, <<"l">>), AliasArg("word", <<"f">>, <<>>),
   AliasArg("word", <<"g">>, <<>>)}

MaxAliasArgs == 2

AliasArgLists == UNION {[1..n -> AliasArgItems] : n \in 0..MaxAliasArgs}

\* The loop over the arguments of alias: [env, out, ok] after it. An
\* assignment defines the alias (write_alias fails on a function of that
\* name and the `?` returns); a bare name that is an alias is written to
\* descriptor 1 as "{alias}\n".
RECURSIVE AliasLoop(_, _, _, _)
AliasLoop(env, log, table, args) ==
  IF args = <<>> THEN [env |-> env, out |-> log, ok |-> TRUE]
  ELSE LET arg == Head(args) IN
       IF arg.kind = "arg_assign"
       THEN IF SetAliasFails(env, arg.name)
            THEN [env |-> env, out |-> log, ok |-> FALSE]
            ELSE AliasLoop([env EXCEPT !.aliases = MapInsert(@, arg.name, TrimQuotes(arg.body))],
                           log, table, Tail(args))
       ELSE IF IsSome(GetAlias(env, arg.name))
            THEN AliasLoop(env, WriteTo(log, "parent", table, 1, GetAlias(env, arg.name).some \o <<NL>>),
                           table, Tail(args))
            ELSE AliasLoop(env, log, table, Tail(args))

atPrompt == ~panicked /\ image = "shell" /\ frame = None /\ subPc = "idle"

Alias(args, redirs, activateOk) ==
  /\ atPrompt
  /\ IF redirs # <<>> /\ ~activateOk
     THEN /\ last' = [op |-> "alias", ret |-> "Err", pre |-> fdTable, args |-> args]
          /\ out' = <<>>
          /\ UNCHANGED <<shellenv, fdTable>>
     ELSE LET act == Activate(fdTable, NoRedirState, redirs)
              res == AliasLoop(shellenv, <<>>, act.table, args)
          IN /\ shellenv' = res.env
             /\ out' = res.out
             /\ fdTable' = DropRedirs(act.table, act.st)
             /\ last' = [op |-> "alias", ret |-> IF res.ok THEN "Ok" ELSE "Err", pre |-> fdTable,
                         args |-> args]
  /\ UNCHANGED <<cwd, panicked, subVars, promptVars, procs, job, frame, image>>

Pwd(redirs, activateOk) ==
  /\ atPrompt
  /\ IF redirs # <<>> /\ ~activateOk
     THEN /\ last' = [op |-> "pwd", ret |-> "Err", pre |-> fdTable]
          /\ out' = <<>>
          /\ UNCHANGED fdTable
     ELSE LET act == Activate(fdTable, NoRedirState, redirs) IN
          /\ fdTable' = DropRedirs(act.table, act.st)
          /\ IF PWD \in DOMAIN shellenv.env_vars
             THEN /\ out' = WriteTo(<<>>, "parent", act.table, 1, shellenv.env_vars[PWD])
                  /\ last' = [op |-> "pwd", ret |-> "Ok", pre |-> fdTable]
             ELSE /\ out' = <<>>
                  /\ last' = [op |-> "pwd", ret |-> "Err", pre |-> fdTable]
  /\ UNCHANGED <<shellenv, cwd, panicked, subVars, promptVars, procs, job, frame, image>>

----------------------------------------------------------------------------
(* The echo builtin *)

EchoWords ==
  {<<"-", "n">>, <<"-", "r">>, <<"-", "e">>, <<"-", "E">>, <<"-", "e", "n">>, <<"-", "x", "n">>,
   <<"a">>, <<"b">>, <<DQ, "a", DQ>>}

MaxEchoWords == 4

EchoWordLists == UNION {[1..n -> EchoWords] : n \in 0..MaxEchoWords}

\* Words that exercise the option loop: -e and -E alone and combined, an
\* unknown character before and after a known one, a lone dash, a plain word
EchoOptionWords ==
  {<<"-", "e">>, <<"-", "E">>, <<"-", "e", "E">>, <<"-", "E", "e">>, <<"-", "x", "E">>,
   <<"-", "n", "x">>, <<"-">>, <<"a">>}

MaxOptionWords == 3

EchoOptionLists == UNION {[1..n -> EchoOptionWords] : n \in 0..MaxOptionWords}

\* The echo calls whose formatting is examined
EchoCalls == EchoWordLists \cup EchoOptionLists

\* The option match with the slip of setting a flag without clearing its opposite
EchoOptKeepsOpposite(flags, opt) ==
  CASE opt = "e" -> flags \cup {"USE_ESCAPE"}
    [] opt = "r" -> flags \cup {"STDERR"}
    [] opt = "n" -> flags \cup {"NO_NEWLINE"}
    [] opt = "P" -> flags \cup {"EXPAND_OX_ESC"}
    [] opt = "E" -> flags \cup {"NO_ESCAPE"}
    [] OTHER -> flags

\* One option character: the flags after it
EchoOpt(flags, opt) ==
  CASE opt = "e" -> (flags \ {"NO_ESCAPE"}) \cup {"USE_ESCAPE"}
    [] opt = "r" -> flags \cup {"STDERR"}
    [] opt = "n" -> flags \cup {"NO_NEWLINE"}
    [] opt = "P" -> flags \cup {"EXPAND_OX_ESC"}
    [] opt = "E" -> (flags \ {"USE_ESCAPE"}) \cup {"NO_ESCAPE"}
    [] OTHER -> flags

IsEchoOpt(opt) == opt \in {"e", "r", "n", "P", "E"}

\* The loop over the characters after '-': an unknown character breaks out;
\* after a known one the word is pushed when no flag bit is set
RECURSIVE EchoOptions(_, _, _)
EchoOptions(st, word, i) ==
  IF i > Len(word) \/ ~IsEchoOpt(word[i]) THEN st
  ELSE LET flags == EchoOpt(st.flags, word[i])
           argv == IF flags = {} THEN Append(st.argv, TrimQuotes(word)) ELSE st.argv
       IN EchoOptions([flags |-> flags, argv |-> argv], word, i + 1)

\* The word loop with the slip of reading options only before the first
\* ordinary argument: a later dash word is pushed as text
RECURSIVE EchoArgsOptionsFirst(_, _)
EchoArgsOptionsFirst(st, words) ==
  IF words = <<>> THEN st
  ELSE LET w == Head(words) IN
       IF Len(w) > 0 /\ w[1] = "-" /\ st.argv = <<>>
       THEN EchoArgsOptionsFirst(EchoOptions(st, w, 2), Tail(words))
       ELSE EchoArgsOptionsFirst([st EXCEPT !.argv = Append(@, TrimQuotes(w))], Tail(words))

\* The loop over the words of the echo call: [flags, argv]
RECURSIVE EchoArgs(_, _)
EchoArgs(st, words) ==
  IF words = <<>> THEN st
  ELSE LET w == Head(words) IN
       IF Len(w) > 0 /\ w[1] = "-"
       THEN EchoArgs(EchoOptions(st, w, 2), Tail(words))
       ELSE EchoArgs([st EXCEPT !.argv = Append(@, TrimQuotes(w))], Tail(words))

\* A catstr that puts the separator after every word, the last one included
RECURSIVE CatstrSpaceAfterEach(_, _)
CatstrSpaceAfterEach(c_strings, newline) ==
  IF c_strings = <<>> THEN (IF newline THEN <<NL>> ELSE <<>>)
  ELSE Head(c_strings) \o <<SP>> \o CatstrSpaceAfterEach(Tail(c_strings), newline)

\* catstr: the words joined by single spaces, then the newline if asked for
RECURSIVE Catstr(_, _)
Catstr(c_strings, newline) ==
  IF c_strings = <<>> THEN (IF newline THEN <<NL>> ELSE <<>>)
  ELSE IF Len(c_strings) = 1 THEN Head(c_strings) \o Catstr(<<>>, newline)
  ELSE Head(c_strings) \o <<SP>> \o Catstr(Tail(c_strings), newline)

\* echo up to the computation of its output: the argument loop, then catstr
EchoFormat ==
  /\ ~panicked
  /\ last.op = "echo_call"
  /\ LET parsed == EchoArgs([flags |-> {}, argv |-> <<>>], last.words) IN
     last' = [op |-> "echo_output", words |-> last.words, flags |-> parsed.flags,
              argv |-> parsed.argv,
              output |-> Catstr(parsed.argv, "NO_NEWLINE" \notin parsed.flags)]
  /\ UNCHANGED <<shellenv, cwd, panicked, nonEnv>>

\* The shell's own pid; it leads its own process group
ShellPid == 1

MaxPid == 2

NextPid == CHOOSE p \in 2..MaxPid : p \notin DOMAIN procs /\ \A q \in 2..(p - 1) : q \in DOMAIN procs

CanFork == \E p \in 2..MaxPid : p \notin DOMAIN procs

\* JobBuilder::new().with_pgid(pgid).with_children(children).build()
BuildJob(pgid, children, via) == Some([pgid |-> pgid, children |-> children, via |-> via])

\* echo, for a context whose IO slots are empty. The call runs up to the
\* hand-over of the job and is then suspended until the child has
\* terminated (FgReturn): in handle_fg, or with BACKGROUND set in
\* insert_job(job, false), which waits through the foreground handler.
Echo(words, redirs, noFork, background, activateOk, forkOk, setpgidOk) ==
  /\ atPrompt
  /\ LET parsed == EchoArgs([flags |-> {}, argv |-> <<>>], words)
         output == Catstr(parsed.argv, "NO_NEWLINE" \notin parsed.flags)
         target_fd == IF "STDERR" \in parsed.flags THEN 2 ELSE 1
         act == Activate(fdTable, NoRedirState, redirs)
         written == IF noFork THEN WriteTo(<<>>, "parent", act.table, target_fd, output) ELSE <<>>
         child == NextPid
     IN
     IF redirs # <<>> /\ ~activateOk
     THEN /\ last' = [op |-> "echo", ret |-> "Err", pre |-> fdTable, cause |-> "activate"]
          /\ out' = <<>>
          /\ UNCHANGED <<fdTable, procs, job, frame>>
     ELSE IF ~forkOk
     THEN /\ last' = [op |-> "echo", ret |-> "Err", pre |-> fdTable, cause |-> "fork"]
          /\ out' = written
          /\ fdTable' = DropRedirs(act.table, act.st)
          /\ UNCHANGED <<procs, job, frame>>
     ELSE /\ CanFork
          /\ out' = written
          /\ IF ~setpgidOk
             THEN /\ procs' = MapInsert(procs, child,
                                [pgid |-> procs[ShellPid].pgid, kind |-> "echo", st |-> "forked",
                                 file |-> act.table[target_fd], text |-> output])
                  /\ fdTable' = DropRedirs(CloseAll(act.table, act.st), act.st)
                  /\ last' = [op |-> "echo", ret |-> "Err", pre |-> fdTable, cause |-> "setpgid"]
                  /\ UNCHANGED <<job, frame>>
             ELSE /\ procs' = MapInsert(procs, child,
                                [pgid |-> child, kind |-> "echo", st |-> "forked",
                                 file |-> act.table[target_fd], text |-> output])
                  /\ job' = BuildJob(child, <<child>>, IF background THEN "insert_job" ELSE "handle_fg")
                  /\ fdTable' = CloseAll(act.table, act.st)
                  /\ frame' = Some([op |-> "echo", st |-> act.st, pre |-> fdTable, no_fork |-> noFork])
                  /\ last' = [op |-> IF background THEN "insert_job" ELSE "handle_fg",
                              ret |-> "waiting", pre |-> fdTable]
  /\ UNCHANGED <<shellenv, cwd, panicked, subVars, promptVars, image>>

\* The forked child of echo: writes the output and exits
EchoChild(pid) ==
  /\ pid \in DOMAIN procs
  /\ procs[pid].kind = "echo"
  /\ procs[pid].st = "forked"
  /\ out' = Append(out, [by |-> "child", file |-> procs[pid].file, text |-> procs[pid].text])
  /\ procs' = [procs EXCEPT ![pid].st = "exited"]
  /\ UNCHANGED <<shellenv, cwd, last, panicked, subVars, promptVars, fdTable, job, frame, image>>

----------------------------------------------------------------------------
(* The external subshell: handle_external_subshell *)

\* The call up to the hand-over of the job to handle_fg. The script is
\* written to a memfd; the context's redirections are activated on the
\* descriptors the script inherits. With in_pipe set the shell process
\* itself calls execve.
HandleExternalSubshell(inPipe, memfdOk, activateOk, forkOk, execOk) ==
  /\ atPrompt
  /\ IF ~memfdOk \/ ~activateOk
     THEN /\ last' = [op |-> "handle_external_subshell", ret |-> "Err", pre |-> fdTable,
                      cause |-> IF memfdOk THEN "activate" ELSE "memfd"]
          /\ UNCHANGED <<panicked, procs, job, frame, image>>
     ELSE IF inPipe
     THEN /\ IF execOk
             THEN image' = "script" /\ UNCHANGED panicked
             ELSE panicked' = TRUE /\ UNCHANGED image
          /\ last' = [op |-> "handle_external_subshell", ret |-> "execve", pre |-> fdTable,
                      cause |-> "in_pipe"]
          /\ UNCHANGED <<procs, job, frame>>
     ELSE IF ~forkOk
     THEN /\ panicked' = TRUE
          /\ last' = [op |-> "handle_external_subshell", ret |-> "panic", pre |-> fdTable,
                      cause |-> "fork"]
          /\ UNCHANGED <<procs, job, frame, image>>
     ELSE /\ CanFork
          /\ procs' = MapInsert(procs, NextPid,
                        [pgid |-> procs[ShellPid].pgid, kind |-> "subshell", st |-> "forked",
                         exec |-> "pending", exit |-> 0])
          /\ job' = BuildJob(NextPid, <<NextPid>>, "handle_fg")
          /\ frame' = Some([op |-> "handle_external_subshell", st |-> NoRedirState, pre |-> fdTable,
                         no_fork |-> FALSE])
          /\ last' = [op |-> "handle_fg", ret |-> "waiting", pre |-> fdTable]
          /\ UNCHANGED <<panicked, image>>
  /\ UNCHANGED <<shellenv, cwd, subVars, promptVars, fdTable, out>>

\* The exit status of a process that ends by a panic
PanicExit == 101

\* The forked child of the external subshell: execve of the memfd script,
\* or, after a failed execve, the panic of `.unwrap()`, which ends the child
SubshellChild(pid, execOk) ==
  /\ pid \in DOMAIN procs
  /\ procs[pid].kind = "subshell"
  /\ procs[pid].st = "forked"
  /\ procs' = IF execOk
              THEN [procs EXCEPT ![pid].st = "script", ![pid].exec = "ok"]
              ELSE [procs EXCEPT ![pid].st = "exited", ![pid].exec = "failed",
                                 ![pid].exit = PanicExit]
  /\ UNCHANGED <<shellenv, cwd, last, panicked, subVars, promptVars, fdTable, out, job, frame, image>>

\* The script run by the child terminates
ScriptExit(pid, status) ==
  /\ pid \in DOMAIN procs
  /\ procs[pid].st = "script"
  /\ procs' = [procs EXCEPT ![pid].st = "exited", ![pid].exit = status]
  /\ UNCHANGED <<shellenv, cwd, last, panicked, subVars, promptVars, fdTable, out, job, frame, image>>

JobChildren(j) == {j.some.children[i] : i \in 1..Len(j.some.children)}

JobDone(j) == \A c \in JobChildren(j) : procs[c].st = "exited"

\* The foreground wait returns once every child of the job has terminated;
\* the suspended call then runs to its end and its redirection set is dropped
FgReturn ==
  /\ ~panicked
  /\ IsSome(frame)
  /\ IsSome(job)
  /\ JobDone(job)
  /\ procs' = [p \in DOMAIN procs \ JobChildren(job) |-> procs[p]]
  /\ job' = None
  /\ frame' = None
  /\ fdTable' = DropRedirs(fdTable, frame.some.st)
  /\ last' = [op |-> frame.some.op, ret |-> "Ok", pre |-> frame.some.pre,
              no_fork |-> frame.some.no_fork]
  /\ UNCHANGED <<shellenv, cwd, panicked, subVars, promptVars, out, image>>

\* The job table's poll for terminated children that no foreground wait collects
Reap(pid) ==
  /\ ~panicked
  /\ frame = None
  /\ pid \in DOMAIN procs
  /\ procs[pid].st = "exited"
  /\ procs' = [p \in DOMAIN procs \ {pid} |-> procs[p]]
  /\ job' = IF IsSome(job) /\ pid \in JobChildren(job) THEN None ELSE job
  /\ UNCHANGED <<shellenv, cwd, last, panicked, subVars, promptVars, fdTable, out, frame, image>>

----------------------------------------------------------------------------
(* The test builtin *)

Reverse(s) == [i \in 1..Len(s) |-> s[Len(s) + 1 - i]]

\* Vec::pop takes the last element
Top(v) == v[Len(v)]

Popped(v) == SubSeq(v, 1, Len(v) - 1)

RB == <<"]">>
Bang == <<"!">>
TokA == <<"-", "a">>
TokO == <<"-", "o">>
TokEq == <<"=">>
TokNe == <<"!", "=">>
TokEqEq == <<"=", "=">>
TokEf == <<"-", "e", "f">>
TokNt == <<"n", "t">>
TokOt == <<"-", "o", "t">>
TokDashNt == <<"-", "n", "t">>

Flag(c) == <<"-", c>>

MetaFlags == {Flag(c) : c \in {"b", "c", "d", "f", "g", "G", "h", "L", "k", "N", "O", "p", "s", "S", "u"}}

StrFlags == {Flag(c) : c \in {"n", "z", "e", "r", "w", "x"}}

IntCmps == {<<"-", "e", "q">>, <<"-", "g", "e">>, <<"-", "g", "t">>,
            <<"-", "l", "e">>, <<"-", "l", "t">>, <<"-", "n", "e">>}

I32Max == 2147483647

AllDigits(s) == s # <<>> /\ \A i \in 1..Len(s) : IsAsciiDigit(s[i])

\* The digit loop of str::parse::<i32>: each step multiplies the accumulator
\* by ten and adds the digit (subtracts it for a negative number), and fails
\* when either operation leaves the 32-bit range
RECURSIVE ParseDigits(_, _, _)
ParseDigits(s, acc, negative) ==
  IF s = <<>> THEN Some(acc)
  ELSE LET d == DigitVal(Head(s)) IN
       IF negative
       THEN (IF acc < 0 - (I32Max \div 10) \/ d - 1 > acc * 10 + I32Max
             THEN None
             ELSE ParseDigits(Tail(s), acc * 10 - d, negative))
       ELSE (IF acc > I32Max \div 10 \/ d > I32Max - acc * 10
             THEN None
             ELSE ParseDigits(Tail(s), acc * 10 + d, negative))

\* str::parse::<i32>: an optional sign, then decimal digits, within range
ParseI32(s) ==
  IF AllDigits(s) THEN ParseDigits(s, 0, FALSE)
  ELSE IF s # <<>> /\ s[1] \in {"-", "+"} /\ AllDigits(Tail(s))
  THEN ParseDigits(Tail(s), 0, s[1] = "-")
  ELSE None

is_int(arg) == IsSome(ParseI32(arg))

\* The file system the predicates look at: the paths that exist, each with
\* the unary flags that hold of it
FileFacts ==
  (RootDir :> {Flag("d"), Flag("e"), Flag("r"), Flag("x")})
  @@ (HomeDir :> {Flag("d"), Flag("e"), Flag("r"), Flag("w"), Flag("x"), Flag("O"), Flag("G")})
  @@ (TmpDir :> {Flag("d"), Flag("e"), Flag("r"), Flag("w"), Flag("x"), Flag("k")})

\* fs::metadata of the existing paths: the device and the modification time
FileMeta ==
  (RootDir :> [dev |-> 1, mtime |-> 1])
  @@ (HomeDir :> [dev |-> 1, mtime |-> 2])
  @@ (TmpDir :> [dev |-> 2, mtime |-> 2])

is_path(arg) == arg \in DOMAIN FileFacts

TestOk(b, rest) == [kind |-> "Ok", val |-> b, rest |-> rest, msg |-> ""]

TestErr(msg) == [kind |-> "Err", val |-> FALSE, rest |-> <<>>, msg |-> msg]

TestPanic == [kind |-> "Panic", val |-> FALSE, rest |-> <<>>, msg |-> "unreachable"]

MissingOperand == "Missing operand in this test call"

\* alter then check_property for one unary flag; a failed conversion is false
UnaryHolds(flag, operand) ==
  IF flag = Flag("t")
  THEN IsSome(ParseI32(operand)) /\ ParseI32(operand).some \in DOMAIN StdFds
  ELSE IF flag \in MetaFlags
  THEN is_path(operand) /\ flag \in FileFacts[operand]
  ELSE IF flag = Flag("n") THEN operand # <<>>
  ELSE IF flag = Flag("z") THEN operand = <<>>
  ELSE is_path(operand) /\ flag \in FileFacts[operand]

\* run_test with the slip of taking a missing operand for a failed conversion
run_testMissingIsFalse(flag, v) ==
  IF v = <<>> THEN TestOk(FALSE, v)
  ELSE TestOk(UnaryHolds(flag, Top(v)), Popped(v))

\* run_test with the operand popped from the vector
run_test(flag, v) ==
  IF v = <<>> THEN TestErr(MissingOperand)
  ELSE TestOk(UnaryHolds(flag, Top(v)), Popped(v))

\* The comparison closures with their two arguments exchanged
IntCmpSwapped(op, lhs, rhs) ==
  CASE op = <<"-", "e", "q">> -> rhs = lhs
    [] op = <<"-", "g", "e">> -> rhs >= lhs
    [] op = <<"-", "g", "t">> -> rhs > lhs
    [] op = <<"-", "l", "e">> -> rhs <= lhs
    [] op = <<"-", "l", "t">> -> rhs < lhs
    [] op = <<"-", "n", "e">> -> rhs # lhs

IntCmp(op, lhs, rhs) ==
  CASE op = <<"-", "e", "q">> -> lhs = rhs
    [] op = <<"-", "g", "e">> -> lhs >= rhs
    [] op = <<"-", "g", "t">> -> lhs > rhs
    [] op = <<"-", "l", "e">> -> lhs <= rhs
    [] op = <<"-", "l", "t">> -> lhs < rhs
    [] op = <<"-", "n", "e">> -> lhs # rhs

\* alter on both sides, then cmp; a failed conversion is false
CmpHolds(op, lhs, rhs) ==
  IF op \in IntCmps
  THEN is_int(lhs) /\ is_int(rhs) /\ IntCmp(op, ParseI32(lhs).some, ParseI32(rhs).some)
  ELSE IF op = TokEf
  THEN is_path(lhs) /\ is_path(rhs) /\ FileMeta[lhs].dev = FileMeta[rhs].dev
  ELSE IF op = TokDashNt
  THEN is_path(lhs) /\ is_path(rhs) /\ FileMeta[lhs].mtime > FileMeta[rhs].mtime
  ELSE IF op = TokOt
  THEN is_path(lhs) /\ is_path(rhs) /\ FileMeta[lhs].mtime < FileMeta[rhs].mtime
  ELSE IF op = TokEq THEN lhs = rhs
  ELSE lhs # rhs

\* do_cmp with the right-hand side popped from the vector
do_cmp(op, lhs, v) ==
  IF v = <<>> THEN TestErr(MissingOperand)
  ELSE TestOk(CmpHolds(op, lhs, Top(v)), Popped(v))

\* The match on the first popped token, for every arm but "!": v is the
\* vector after that pop
TestPrimary(arg, v) ==
  IF arg = Flag("t") \/ arg \in MetaFlags \/ arg \in StrFlags THEN run_test(arg, v)
  ELSE IF is_int(arg)
  THEN IF v = <<>>
       THEN TestErr("Expected a comparison flag after integer in test call")
       ELSE IF Top(v) \in IntCmps
       THEN do_cmp(Top(v), arg, Popped(v))
       ELSE TestErr("Expected an integer after comparison flag in test call")
  ELSE IF is_path(arg) /\ v # <<>> /\ Top(v) \in {TokEf, TokNt, TokOt}
  THEN IF Top(v) = TokNt THEN TestPanic
       ELSE do_cmp(Top(v), Top(v), Popped(v))
  ELSE IF v = <<>> THEN TestOk(arg # <<>>, v)
  ELSE IF arg = TokEq
  THEN TestOk(Top(v) \in {TokO, TokA}, IF Top(v) \notin {TokO, TokA} THEN Popped(v) ELSE v)
  ELSE IF Top(v) \in {TokEq, TokNe} THEN do_cmp(Top(v), arg, Popped(v))
  ELSE IF Top(v) = TokEqEq
  THEN TestErr("'==' is not a valid comparison operator for test calls. Use '=' instead.")
  ELSE TestErr("Expected either '==' or '!=' after string in test call")

\* do_log_op, given the outcome of the recursive call
do_log_op(rec_result, result, operator) ==
  IF rec_result.kind # "Ok" THEN rec_result
  ELSE TestOk(CASE operator = Bang -> ~rec_result.val
                [] operator = TokA -> result /\ rec_result.val
                [] operator = TokO -> result \/ rec_result.val,
              rec_result.rest)

\* test with the slip of returning the primary's value when the next token
\* is no connective
RECURSIVE TestIgnoresExtra(_)
TestIgnoresExtra(test_call) ==
  LET v0 == IF test_call # <<>> /\ Head(test_call) = RB THEN Tail(test_call) ELSE test_call IN
  IF v0 = <<>> THEN TestOk(FALSE, v0)
  ELSE LET arg == Top(v0)
           prim == IF arg = Bang THEN do_log_op(TestIgnoresExtra(Popped(v0)), TRUE, Bang)
                   ELSE TestPrimary(arg, Popped(v0))
       IN IF prim.kind # "Ok" \/ prim.rest = <<>> THEN prim
          ELSE LET word == Top(prim.rest)
                   v2 == Popped(prim.rest)
               IN IF word = TokA /\ ~prim.val THEN TestOk(prim.val, v2)
                  ELSE IF word = TokO /\ prim.val THEN TestOk(prim.val, v2)
                  ELSE IF word \in {TokA, TokO} THEN do_log_op(TestIgnoresExtra(v2), prim.val, word)
                  ELSE TestOk(prim.val, v2)

\* test with the slip of leaving a closing "]" in the vector
RECURSIVE TestKeepsBracket(_)
TestKeepsBracket(test_call) ==
  LET v0 == test_call IN
  IF v0 = <<>> THEN TestOk(FALSE, v0)
  ELSE LET arg == Top(v0)
           prim == IF arg = Bang THEN do_log_op(TestKeepsBracket(Popped(v0)), TRUE, Bang)
                   ELSE TestPrimary(arg, Popped(v0))
       IN IF prim.kind # "Ok" \/ prim.rest = <<>> THEN prim
          ELSE LET word == Top(prim.rest)
                   v2 == Popped(prim.rest)
               IN IF word = TokA /\ ~prim.val THEN TestOk(prim.val, v2)
                  ELSE IF word = TokO /\ prim.val THEN TestOk(prim.val, v2)
                  ELSE IF word \in {TokA, TokO} THEN do_log_op(TestKeepsBracket(v2), prim.val, word)
                  ELSE TestErr("Unexpected extra argument found in test call")

\* test over the prepared vector: the call's tokens in reverse, so that pop
\* yields them in textual order and a closing "]" stands first
RECURSIVE Test(_)
Test(test_call) ==
  LET v0 == IF test_call # <<>> /\ Head(test_call) = RB THEN Tail(test_call) ELSE test_call IN
  IF v0 = <<>> THEN TestOk(FALSE, v0)
  ELSE LET arg == Top(v0)
           prim == IF arg = Bang THEN do_log_op(Test(Popped(v0)), TRUE, Bang)
                   ELSE TestPrimary(arg, Popped(v0))
       IN IF prim.kind # "Ok" \/ prim.rest = <<>> THEN prim
          ELSE LET word == Top(prim.rest)
                   v2 == Popped(prim.rest)
               IN IF word = TokA /\ ~prim.val THEN TestOk(prim.val, v2)
                  ELSE IF word = TokO /\ prim.val THEN TestOk(prim.val, v2)
                  ELSE IF word \in {TokA, TokO} THEN do_log_op(Test(v2), prim.val, word)
                  ELSE TestErr("Unexpected extra argument found in test call")

\* The deeper of two nestings; it shrinks when both do
DeeperOf(a, b) ==
  [depth |-> IF a.depth >= b.depth THEN a.depth ELSE b.depth, shrinks |-> a.shrinks /\ b.shrinks]

\* One level of recursion around a nesting: the call was handed `inner`
\* tokens by a caller that itself received `outer` tokens
Nest(n, inner, outer) == [depth |-> n.depth + 1, shrinks |-> n.shrinks /\ inner < outer]

\* The recursion with the slip of re-entering test for "!" before the "!" is
\* popped: one more level, on a vector that has not shrunk
RECURSIVE TestNestingLatePop(_)
TestNestingLatePop(test_call) ==
  LET v0 == IF test_call # <<>> /\ Head(test_call) = RB THEN Tail(test_call) ELSE test_call
      none == [depth |-> 0, shrinks |-> TRUE]
  IN
  IF v0 = <<>> THEN none
  ELSE LET arg == Top(v0)
           prim == IF arg = Bang THEN do_log_op(Test(Popped(v0)), TRUE, Bang)
                   ELSE TestPrimary(arg, Popped(v0))
           first == IF arg = Bang
                    THEN Nest(Nest(TestNestingLatePop(Popped(v0)), Len(Popped(v0)), Len(v0)),
                              Len(v0), Len(test_call))
                    ELSE none
       IN IF prim.kind # "Ok" \/ prim.rest = <<>> THEN first
          ELSE LET word == Top(prim.rest)
                   v2 == Popped(prim.rest)
               IN IF word \in {TokA, TokO} /\ prim.val = (word = TokA)
                  THEN DeeperOf(first, Nest(TestNestingLatePop(v2), Len(v2), Len(test_call)))
                  ELSE first

\* The recursion of test through do_log_op on a prepared vector: how deep
\* the calls nest, and whether every recursive call was handed fewer tokens
\* than its caller had received
RECURSIVE TestNesting(_)
TestNesting(test_call) ==
  LET v0 == IF test_call # <<>> /\ Head(test_call) = RB THEN Tail(test_call) ELSE test_call
      none == [depth |-> 0, shrinks |-> TRUE]
  IN
  IF v0 = <<>> THEN none
  ELSE LET arg == Top(v0)
           prim == IF arg = Bang THEN do_log_op(Test(Popped(v0)), TRUE, Bang)
                   ELSE TestPrimary(arg, Popped(v0))
           first == IF arg = Bang
                    THEN Nest(TestNesting(Popped(v0)), Len(Popped(v0)), Len(test_call))
                    ELSE none
       IN IF prim.kind # "Ok" \/ prim.rest = <<>> THEN first
          ELSE LET word == Top(prim.rest)
                   v2 == Popped(prim.rest)
               IN IF word \in {TokA, TokO} /\ prim.val = (word = TokA)
                  THEN DeeperOf(first, Nest(TestNesting(v2), Len(v2), Len(test_call)))
                  ELSE first

\* The tokens test calls are built from
TestTokens ==
  {<<>>, <<"a">>, <<"1">>, <<"2">>, RootDir, Flag("n"), Flag("z"), Flag("d"),
   <<"-", "l", "t">>, <<"-", "e", "q">>, TokEq, TokNe, TokEqEq, TokA, TokO, Bang, RB, TokNt}

MaxTestTokens == 3

\* The primaries of the grammar: a bare string, a unary flag with its
\* operand, an integer comparison, a string comparison
TestPrimaries ==
  {<<s>> : s \in {<<>>, <<"a">>}}
  \cup {<<f, s>> : f \in {Flag("n"), Flag("z"), Flag("d")}, s \in {<<>>, <<"a">>, RootDir}}
  \cup {<<l, op, r>> : l \in {<<"1">>, <<"2">>}, op \in {<<"-", "l", "t">>, <<"-", "e", "q">>},
                       r \in {<<"1">>, <<"2">>}}
  \cup {<<l, op, r>> : l \in {<<>>, <<"a">>}, op \in {TokEq, TokNe}, r \in {<<>>, <<"a">>}}

\* A primary of either truth value, for chains of connectives
ChainPrimaries == {<<Flag("n"), <<>>>>, <<Flag("n"), <<"a">>>>}

\* P op1 Q op2 R
TestChains ==
  {p \o <<c1>> \o q \o <<c2>> \o r :
     p \in ChainPrimaries, q \in ChainPrimaries, r \in ChainPrimaries,
     c1 \in {TokA, TokO}, c2 \in {TokA, TokO}}

\* ! P op Q
TestNegations ==
  {<<Bang>> \o p \o <<c>> \o q : p \in ChainPrimaries, q \in ChainPrimaries, c \in {TokA, TokO}}

\* Decimal words of 32-bit integers: both ends of the range, zero and small
\* values of either sign
IntWords ==
  {<<"-", "2", "1", "4", "7", "4", "8", "3", "6", "4", "8">>, <<"-", "1">>, <<"0">>,
   <<"1">>, <<"2">>, <<"2", "1", "4", "7", "4", "8", "3", "6", "4", "7">>}

\* a op b
TestIntCmps == {<<a, op, b>> : a \in IntWords, op \in IntCmps, b \in IntWords}

\* Predicates applied to the word a, which is neither an integer nor an
\* existing path, and to an integer
TestConversions ==
  {<<f, s>> : f \in {Flag("t")} \cup MetaFlags, s \in {<<"a">>, <<"1">>}}
  \cup {<<l, op, r>> : l \in {<<"a">>, <<"1">>}, op \in IntCmps, r \in {<<"a">>, <<"1">>}}

\* The flags that take one operand
UnaryFlags == {Flag("t")} \cup MetaFlags \cup StrFlags

\* A unary flag with nothing after it, alone and after a connective
TestMissing ==
  {<<f>> : f \in UnaryFlags}
  \cup {p \o <<c, f>> : p \in ChainPrimaries, c \in {TokA, TokO}, f \in UnaryFlags}

\* a op b for existing files a and b and the three file comparisons
TestFileCmps ==
  {<<a, op, b>> : a \in DOMAIN FileMeta, op \in {TokEf, TokDashNt, TokOt, TokNt}, b \in DOMAIN FileMeta}

\* Expressions with connectives, closed by "]"
TestBracketed ==
  {x \o <<RB>> :
     x \in TestChains \cup TestNegations
            \cup {p \o <<c>> \o q : p \in ChainPrimaries, c \in {TokA, TokO}, q \in ChainPrimaries}}

\* A primary of two or three tokens followed by one more token
TestExtras ==
  {p \o <<t>> : p \in {q \in TestPrimaries : Len(q) >= 2}, t \in {<<>>, <<"a">>, <<"1">>, Flag("n"), TokEq, Bang}}

TestCalls ==
  UNION {[1..n -> TestTokens] : n \in 0..MaxTestTokens}
  \cup {p \o <<c>> \o q : p \in TestPrimaries, c \in {TokA, TokO}, q \in TestPrimaries}
  \cup {p \o <<c>> \o q : p \in TestPrimaries, c \in {TokA, TokO}, q \in {<<TokEqEq>>, <<Flag("n")>>}}
  \cup TestChains
  \cup TestNegations
  \cup TestIntCmps
  \cup TestConversions
  \cup TestMissing
  \cup TestFileCmps
  \cup TestBracketed
  \cup TestExtras

\* The test builtin applied to the tokens of the pending call
TestBuiltin ==
  /\ ~panicked
  /\ last.op = "test_call"
  /\ LET res == Test(Reverse(last.args)) IN
     /\ last' = [op |-> "test", args |-> last.args, res |-> res,
                 nesting |-> TestNesting(Reverse(last.args))]
     /\ panicked' = (res.kind = "Panic")
  /\ UNCHANGED <<shellenv, cwd, nonEnv>>

----------------------------------------------------------------------------
(* Sourcing files: source_file and the source builtin *)

\* The files a path can name, by what happens when the file is sourced:
\* each has whether it exists as a regular file, whether it can be opened
\* and read, and what the parser and the walker return for its contents.
SourceFiles ==
  {[name |-> "ok",          is_file |-> TRUE,  open |-> TRUE,  read |-> TRUE,  parse |-> "Ok",  walk |-> "Ok"],
   [name |-> "missing",     is_file |-> FALSE, open |-> FALSE, read |-> FALSE, parse |-> "Ok",  walk |-> "Ok"],
   [name |-> "unopenable",  is_file |-> TRUE,  open |-> FALSE, read |-> FALSE, parse |-> "Ok",  walk |-> "Ok"],
   [name |-> "unreadable",  is_file |-> TRUE,  open |-> TRUE,  read |-> FALSE, parse |-> "Ok",  walk |-> "Ok"],
   [name |-> "unparsable",  is_file |-> TRUE,  open |-> TRUE,  read |-> TRUE,  parse |-> "Err", walk |-> "Ok"],
   [name |-> "failing",     is_file |-> TRUE,  open |-> TRUE,  read |-> TRUE,  parse |-> "Ok",  walk |-> "Err"],
   [name |-> "no_command",  is_file |-> TRUE,  open |-> TRUE,  read |-> TRUE,  parse |-> "Ok",  walk |-> "Fail127"]}

\* source_file on one file: [env, out, ret] after it. A failed open or read
\* is returned; a parse error, an error of the walk and a status 127 are
\* written to descriptor 2 and the call returns Ok.
SourceFileRun(env, log, table, file) ==
  IF ~file.open \/ ~file.read
  THEN [env |-> env, out |-> log, ret |-> "IoError"]
  ELSE LET env1 == [env EXCEPT !.last_input = Some(file.name)] IN
       IF file.parse = "Err"
       THEN [env |-> env1, ret |-> "Ok",
             out |-> WriteTo(log, "parent", table, 2, <<"Encountered error while sourcing file", file.name>>)]
       ELSE IF file.walk = "Err"
       THEN [env |-> env1, ret |-> "Ok", out |-> WriteTo(log, "parent", table, 2, <<"error", file.name>>)]
       ELSE IF file.walk = "Fail127"
       THEN [env |-> env1, ret |-> "Ok",
             out |-> WriteTo(log, "parent", table, 2, <<"Command not found", file.name>>)]
       ELSE [env |-> env1, ret |-> "Ok", out |-> log]

SourceFile(file) ==
  /\ atPrompt
  /\ LET res == SourceFileRun(shellenv, <<>>, fdTable, file) IN
     /\ shellenv' = res.env
     /\ out' = res.out
     /\ last' = [op |-> "source_file", files |-> <<file>>, ret |-> res.ret]
  /\ UNCHANGED <<cwd, panicked, subVars, promptVars, fdTable, procs, job, frame, image>>

MaxSourceArgs == 2

SourceArgLists == UNION {[1..n -> SourceFiles] : n \in 0..MaxSourceArgs}

\* The loop of the source builtin over its words: [env, out, ret] after it
RECURSIVE SourceLoop(_, _, _, _)
SourceLoop(env, log, table, files) ==
  IF files = <<>> THEN [env |-> env, out |-> log, ret |-> "Ok"]
  ELSE IF Head(files).is_file
  THEN LET res == SourceFileRun(env, log, table, Head(files)) IN
       IF res.ret # "Ok" THEN res
       ELSE SourceLoop(res.env, res.out, table, Tail(files))
  ELSE [env |-> env, out |-> log, ret |-> "ExecError"]

Source(files) ==
  /\ atPrompt
  /\ LET res == SourceLoop(shellenv, <<>>, fdTable, files) IN
     /\ shellenv' = res.env
     /\ out' = res.out
     /\ last' = [op |-> "source", files |-> files, ret |-> res.ret]
  /\ UNCHANGED <<cwd, panicked, subVars, promptVars, fdTable, procs, job, frame, image>>

----------------------------------------------------------------------------
(* The line validator: check_balanced_delims and OxHelper::validate *)

Letters ==
  {"a", "b", "c", "d", "e", "f", "g", "h", "i", "j", "k", "l", "m", "n", "o", "p", "q", "r", "s", "t", "u", "v", "w", "x", "y", "z", "A", "B", "C", "D", "E", "F", "G", "H", "I", "J", "K", "L", "M", "N", "O", "P", "Q", "R", "S", "T", "U", "V", "W", "X", "Y", "Z"}

\* char::is_alphanumeric, for ASCII input
IsAlphanumeric(ch) == ch \in Letters \/ IsAsciiDigit(ch)

IsWordStart(ch) == IsAlphanumeric(ch) \/ ch = "_"

IsWordChar(ch) == IsAlphanumeric(ch) \/ ch = "_" \/ ch = "-"

Whitespace == {" ", "\n", "\t"}

\* The reserved words (KEYWORDS)
Keywords ==
  {<<"i", "f">>, <<"t", "h", "e", "n">>, <<"e", "l", "i", "f">>, <<"e", "l", "s", "e">>, <<"f", "i">>,
   <<"f", "o", "r">>, <<"w", "h", "i", "l", "e">>, <<"u", "n", "t", "i", "l">>, <<"s", "e", "l", "e", "c", "t">>, <<"d", "o">>,
   <<"d", "o", "n", "e">>, <<"c", "a", "s", "e">>, <<"i", "n">>, <<"e", "s", "a", "c">>}

RECURSIVE TrimEndWhitespace(_)
TrimEndWhitespace(s) ==
  IF s # <<>> /\ s[Len(s)] \in Whitespace THEN TrimEndWhitespace(SubSeq(s, 1, Len(s) - 1)) ELSE s

\* str::split_whitespace().last()
LastWord(s) ==
  LET t == TrimEndWhitespace(s) IN
  IF t = <<>> THEN None
  ELSE LET starts == {i \in 1..Len(t) : \A j \in i..Len(t) : t[j] \notin Whitespace}
           first == CHOOSE i \in starts : \A k \in starts : i <= k
       IN Some(SubSeq(t, first, Len(t)))

\* Vec::pop on the delimiter and keyword stacks
StackPop(stack) == IF stack = <<>> THEN stack ELSE SubSeq(stack, 1, Len(stack) - 1)

StackLast(stack) == IF stack = <<>> THEN None ELSE Some(stack[Len(stack)])

\* The loop that skips a quoted string: i is the next character to read.
\* Gives the position after the loop and whether the closing quote was found.
RECURSIVE ScanQuote(_, _, _)
ScanQuote(input, i, opening_quote) ==
  IF i > Len(input) THEN [i |-> i, closed |-> FALSE]
  ELSE IF input[i] = "\\" THEN ScanQuote(input, i + 2, opening_quote)
  ELSE IF input[i] = opening_quote THEN [i |-> i + 1, closed |-> TRUE]
  ELSE ScanQuote(input, i + 1, opening_quote)

\* The loop entered at '(': gives the position after it and the delimiter stack
RECURSIVE ScanParen(_, _, _)
ScanParen(input, i, delim_stack) ==
  IF i > Len(input) THEN [i |-> i, delim_stack |-> delim_stack]
  ELSE IF input[i] = "\\" THEN ScanParen(input, i + 2, delim_stack)
  ELSE IF input[i] = ")"
  THEN LET popped == StackPop(delim_stack) IN
       IF StackLast(popped) # Some("(")
       THEN [i |-> i + 1, delim_stack |-> popped]
       ELSE ScanParen(input, i + 1, popped)
  ELSE IF input[i] = "(" THEN ScanParen(input, i + 1, Append(delim_stack, "("))
  ELSE ScanParen(input, i + 1, delim_stack)

\* The index of the last character of the word that starts at i
RECURSIVE WordEnd(_, _)
WordEnd(input, i) ==
  IF i < Len(input) /\ IsWordChar(input[i + 1]) THEN WordEnd(input, i + 1) ELSE i

OpeningKeywords == {<<"i", "f">>, <<"w", "h", "i", "l", "e">>, <<"f", "o", "r">>, <<"u", "n", "t", "i", "l">>, <<"s", "e", "l", "e", "c", "t">>, <<"c", "a", "s", "e">>}

\* The keyword stack after a word that is not pushed as an opener
KeywordStackAfter(keyword_stack, keyword) ==
  LET top == StackLast(keyword_stack) IN
  IF keyword = <<"f", "i">>
  THEN (IF top \in {Some(<<"i", "f">>), Some(<<"e", "l", "s", "e">>)} THEN StackPop(keyword_stack) ELSE keyword_stack)
  ELSE IF keyword = <<"d", "o", "n", "e">>
  THEN (IF top \in {Some(<<"d", "o">>), Some(<<"w", "h", "i", "l", "e">>), Some(<<"u", "n", "t", "i", "l">>), Some(<<"f", "o", "r">>), Some(<<"s", "e", "l", "e", "c", "t">>)}
        THEN StackPop(keyword_stack) ELSE keyword_stack)
  ELSE IF keyword = <<"e", "s", "a", "c">>
  THEN (IF top = Some(<<"i", "n">>) THEN StackPop(keyword_stack) ELSE keyword_stack)
  ELSE IF keyword = <<"i", "n">>
  THEN (IF top \in {Some(<<"c", "a", "s", "e">>), Some(<<"f", "o", "r">>), Some(<<"s", "e", "l", "e", "c", "t">>)}
        THEN Append(StackPop(keyword_stack), keyword) ELSE keyword_stack)
  ELSE keyword_stack

UnmatchedCloser(ch) == [kind |-> "Err", val |-> FALSE, msg |-> <<"Unmatched closing delimiter: ", ch>>]

\* One iteration of the loop of check_balanced_delims, at character i with
\* st holding delim_stack, keyword_stack, checked_chars and is_command: the
\* next position, the locals after it, and the error when it returns one
CheckStep(input, i, st) ==
  LET ch == input[i]
      pushed == Append(st.checked_chars, ch)
      Go(j, s) == [i |-> j, st |-> s, err |-> None]
  IN
  IF ch \in {"\n", ";"}
  THEN Go(i + 1, [st EXCEPT !.is_command = TRUE, !.checked_chars = pushed])
  ELSE IF ch = " "
  THEN LET last_word == LastWord(st.checked_chars) IN
       Go(i + 1, [st EXCEPT !.is_command = IF IsSome(last_word) /\ last_word.some \notin Keywords
                                           THEN FALSE ELSE @,
                            !.checked_chars = pushed])
  ELSE IF ch = "\\"
  THEN Go(i + 2, [st EXCEPT !.checked_chars = pushed])
  ELSE IF ch \in {"{", "["}
  THEN Go(i + 1, [st EXCEPT !.delim_stack = Append(@, ch), !.checked_chars = pushed])
  ELSE IF ch \in {"}", "]"}
  THEN IF StackLast(st.delim_stack) # Some(IF ch = "}" THEN "{" ELSE "[")
       THEN [i |-> i, st |-> st, err |-> Some(UnmatchedCloser(ch))]
       ELSE Go(i + 1, [st EXCEPT !.delim_stack = StackPop(@), !.checked_chars = pushed])
  ELSE IF ch \in {"'", "\""}
  THEN LET scan == ScanQuote(input, i + 1, ch) IN
       Go(scan.i, [st EXCEPT !.delim_stack = IF scan.closed THEN @ ELSE Append(@, ch),
                             !.checked_chars = pushed])
  ELSE IF ch = "("
  THEN LET scan == ScanParen(input, i + 1, Append(st.delim_stack, ch)) IN
       Go(scan.i, [st EXCEPT !.delim_stack = scan.delim_stack, !.checked_chars = pushed])
  ELSE IF IsWordStart(ch)
  THEN LET e == WordEnd(input, i)
           keyword == SubSeq(input, i, e)
           checked == st.checked_chars \o SubSeq(input, i + 1, e) \o <<ch>>
       IN Go(e + 1, [st EXCEPT !.keyword_stack =
                                 IF st.is_command /\ keyword \in OpeningKeywords
                                 THEN Append(@, keyword)
                                 ELSE KeywordStackAfter(@, keyword),
                               !.checked_chars = checked])
  ELSE Go(i + 1, [st EXCEPT !.checked_chars = pushed])

\* check_balanced_delims from character i on
RECURSIVE CheckFrom(_, _, _)
CheckFrom(input, i, st) ==
  IF i > Len(input)
  THEN [kind |-> "Ok", val |-> (st.delim_stack = <<>> /\ st.keyword_stack = <<>>), msg |-> <<>>]
  ELSE LET step == CheckStep(input, i, st) IN
       IF IsSome(step.err) THEN step.err.some ELSE CheckFrom(input, step.i, step.st)

check_balanced_delims(input) ==
  CheckFrom(input, 1, [delim_stack |-> <<>>, keyword_stack |-> <<>>, checked_chars |-> <<>>,
                       is_command |-> TRUE])

\* OxHelper::validate
Validate(input) ==
  LET res == check_balanced_delims(input) IN
  IF res.kind = "Err" THEN "Invalid" ELSE IF res.val THEN "Valid" ELSE "Incomplete"

\* A simple command
SimpleCommand == <<"a">>

\* The control constructs, each as the text before and after its innermost body
ConstructFrames ==
  {[pre |-> <<"i", "f", " ", "a", ";", " ", "t", "h", "e", "n", " ">>,
    post |-> <<";", " ", "f", "i">>],
   [pre |-> <<"i", "f", " ", "a", ";", " ", "t", "h", "e", "n", " ", "a", ";", " ", "e", "l", "s", "e", " ">>,
    post |-> <<";", " ", "f", "i">>],
   [pre |-> <<"i", "f", " ", "a", ";", " ", "t", "h", "e", "n", " ", "a", ";", " ", "e", "l", "i", "f", " ", "a", ";", " ", "t", "h", "e", "n", " ">>,
    post |-> <<";", " ", "f", "i">>],
   [pre |-> <<"w", "h", "i", "l", "e", " ", "a", ";", " ", "d", "o", " ">>,
    post |-> <<";", " ", "d", "o", "n", "e">>],
   [pre |-> <<"u", "n", "t", "i", "l", " ", "a", ";", " ", "d", "o", " ">>,
    post |-> <<";", " ", "d", "o", "n", "e">>],
   [pre |-> <<"f", "o", "r", " ", "x", " ", "i", "n", " ", "a", ";", " ", "d", "o", " ">>,
    post |-> <<";", " ", "d", "o", "n", "e">>],
   [pre |-> <<"s", "e", "l", "e", "c", "t", " ", "x", " ", "i", "n", " ", "a", ";", " ", "d", "o", " ">>,
    post |-> <<";", " ", "d", "o", "n", "e">>],
   [pre |-> <<"c", "a", "s", "e", " ", "x", " ", "i", "n", " ", "a", ")", " ">>,
    post |-> <<";", ";", " ", "e", "s", "a", "c">>]}

MaxNest == 2

\* The complete commands nested up to n constructs deep
RECURSIVE Nested(_)
Nested(n) ==
  IF n = 0 THEN {SimpleCommand}
  ELSE Nested(n - 1) \cup {f.pre \o b \o f.post : f \in ConstructFrames, b \in Nested(n - 1)}

CompleteConstructs == Nested(MaxNest) \ {SimpleCommand}

\* A construct whose closing keyword has not been typed yet, around a complete body
UnclosedConstructs == {f.pre \o b : f \in ConstructFrames, b \in Nested(MaxNest - 1)}

\* A command between an optional opening and an optional closing delimiter
DelimiterLines ==
  {o \o <<"e", "c", "h", "o">> \o c : o \in {<<>>, <<"(", " ">>, <<"{", " ">>, <<"[", " ">>},
                  c \in {<<>>, <<" ", ")">>, <<" ", "}">>, <<" ", "]">>}}

\* Lines with quoted regions and escapes
\* echo 'a\'
QuoteBackslashInSingle == <<"e", "c", "h", "o", " ", "'", "a", "\\", "'">>

\* echo '{ ( ['
QuoteDelimsInSingle == <<"e", "c", "h", "o", " ", "'", "{", " ", "(", " ", "[", "'">>

\* echo "} ) ]"
QuoteDelimsInDouble == <<"e", "c", "h", "o", " ", DQ, "}", " ", ")", " ", "]", DQ>>

\* echo 'if'
QuoteKeywordInSingle == <<"e", "c", "h", "o", " ", "'", "i", "f", "'">>

\* echo "then"
QuoteKeywordInDouble == <<"e", "c", "h", "o", " ", DQ, "t", "h", "e", "n", DQ>>

\* echo "a\"b"
QuoteEscapeInDouble == <<"e", "c", "h", "o", " ", DQ, "a", "\\", DQ, "b", DQ>>

\* echo \{
QuoteEscapedBrace == <<"e", "c", "h", "o", " ", "\\", "{">>

\* echo \"
QuoteEscapedDouble == <<"e", "c", "h", "o", " ", "\\", DQ>>

\* echo \'
QuoteEscapedSingle == <<"e", "c", "h", "o", " ", "\\", "'">>

\* echo "a\"
QuoteOpenDouble == <<"e", "c", "h", "o", " ", DQ, "a", "\\", DQ>>

\* echo 'a
QuoteOpenSingle == <<"e", "c", "h", "o", " ", "'", "a">>

QuoteLines ==
  {QuoteBackslashInSingle,
   QuoteDelimsInSingle,
   QuoteDelimsInDouble,
   QuoteKeywordInSingle,
   QuoteKeywordInDouble,
   QuoteEscapeInDouble,
   QuoteEscapedBrace,
   QuoteEscapedDouble,
   QuoteEscapedSingle,
   QuoteOpenDouble,
   QuoteOpenSingle}

ValidatorInputs == Nested(MaxNest) \cup UnclosedConstructs \cup DelimiterLines \cup QuoteLines

\* The validator applied to the line being edited
ValidateLine ==
  /\ ~panicked
  /\ last.op = "validate_call"
  /\ last' = [op |-> "validate", input |-> last.input, result |-> Validate(last.input)]
  /\ UNCHANGED <<shellenv, cwd, panicked, nonEnv>>

----------------------------------------------------------------------------
(* The highlighter: OxHelper::highlight and highlight_one *)

\* The colour escape sequences, each one element of the output
RESET == "RESET"
ERROR == "RED"
COMMAND == "GREEN"
KEYWORD == "YELLOW"
STRING_COLOUR == "BLUE"
ESCAPED == "CYAN"
VARSUB == "MAGENTA"

Colours == {RESET, ERROR, COMMAND, KEYWORD, STRING_COLOUR, ESCAPED, VARSUB}

\* The names search_path finds: commands of PATH, functions and aliases
PathCommands == {<<"a", "a">>}

search_path(target) == target \in PathCommands

\* hl_block.trim().is_empty()
TrimIsEmpty(block) == \A i \in 1..Len(block) : block[i] \in Whitespace

\* The loop of the '$' arm for `${`: takes characters up to the closing brace
RECURSIVE VarBraced(_, _)
VarBraced(line, var_name) ==
  IF line = <<>> THEN [line |-> line, var_name |-> var_name]
  ELSE LET var_ch == Head(line)
           esc == var_ch = "\\" /\ Len(line) >= 2
           taken == IF esc THEN <<var_ch, line[2]>> ELSE <<var_ch>>
           rest == SubSeq(line, Len(taken) + 1, Len(line))
       IN IF var_ch = "}"
          THEN [line |-> rest, var_name |-> var_name \o taken \o <<RESET>>]
          ELSE VarBraced(rest, var_name \o taken)

\* The loop of the '$' arm for a plain name: takes characters up to a separator
RECURSIVE VarPlain(_, _)
VarPlain(line, var_name) ==
  IF line = <<>> THEN [line |-> line, var_name |-> var_name]
  ELSE LET var_ch == Head(line)
           esc == var_ch = "\\" /\ Len(line) >= 2
           taken == IF esc THEN <<var_ch, line[2]>> ELSE <<var_ch>>
           rest == SubSeq(line, Len(taken) + 1, Len(line))
       IN IF var_ch \in {" ", "\t", ";", "\n"}
          THEN [line |-> rest, var_name |-> var_name \o taken \o <<RESET>>]
          ELSE VarPlain(rest, var_name \o taken)

\* The loop of the single-quote arm: the line after the closing quote.
\* What it collects in sng_quoted is not added to hl_block.
RECURSIVE SkipSingleQuoted(_)
SkipSingleQuoted(line) ==
  IF line = <<>> THEN line
  ELSE IF Head(line) = "'" THEN Tail(line)
  ELSE SkipSingleQuoted(Tail(line))

\* One iteration of the loop of highlight_one over
\* [line, hl_block, prefix, cur_word, dub_quote, done]
HighlightChar(st) ==
  LET ch == Head(st.line)
      line == Tail(st.line)
  IN
  IF ch = "\\"
  THEN LET escaped == IF line = <<>> THEN <<>> ELSE <<Head(line)>> IN
       [st EXCEPT !.line = IF line = <<>> THEN line ELSE Tail(line),
                  !.prefix = ESCAPED,
                  !.hl_block = @ \o <<ESCAPED, ch>> \o escaped \o <<st.prefix>>]
  ELSE IF ch = "$"
  THEN LET var == IF line # <<>> /\ Head(line) = "{"
                  THEN VarBraced(line, <<VARSUB, ch>>)
                  ELSE VarPlain(line, <<VARSUB, ch>>)
       IN [st EXCEPT !.line = var.line, !.hl_block = @ \o var.var_name]
  ELSE IF ch = DQ
  THEN IF ~st.dub_quote
       THEN [st EXCEPT !.line = line, !.dub_quote = TRUE, !.prefix = STRING_COLOUR,
                       !.hl_block = @ \o <<STRING_COLOUR, ch>>]
       ELSE [st EXCEPT !.line = line, !.dub_quote = FALSE, !.prefix = RESET,
                       !.hl_block = @ \o <<ch, RESET>>]
  ELSE IF st.dub_quote
  THEN [st EXCEPT !.line = line, !.hl_block = Append(@, ch)]
  ELSE IF ch = "'"
  THEN [st EXCEPT !.line = SkipSingleQuoted(line)]
  ELSE IF ch \in {" ", "\t", ";", "\n"}
  THEN LET first == TrimIsEmpty(st.hl_block) /\ st.cur_word # <<>>
           prefix == IF ~first THEN st.prefix
                     ELSE IF st.cur_word \in Keywords THEN KEYWORD
                     ELSE IF search_path(st.cur_word) THEN COMMAND
                     ELSE st.prefix
           formatted == IF first THEN <<prefix>> \o st.cur_word \o <<RESET>>
                        ELSE IF st.cur_word # <<>> THEN <<RESET>> \o st.cur_word \o <<RESET>>
                        ELSE <<>>
       IN [st EXCEPT !.line = line, !.prefix = prefix, !.cur_word = <<>>,
                     !.hl_block = @ \o formatted \o <<ch>>,
                     !.done = ch \in {";", "\n"}]
  ELSE [st EXCEPT !.line = line, !.cur_word = Append(@, ch)]

RECURSIVE HighlightLoop(_)
HighlightLoop(st) ==
  IF st.line = <<>> \/ st.done THEN st ELSE HighlightLoop(HighlightChar(st))

\* highlight_one: the block for the characters it took, and the line left
highlight_one(line) ==
  LET st == HighlightLoop([line |-> line, hl_block |-> <<>>, prefix |-> ERROR,
                           cur_word |-> <<>>, dub_quote |-> FALSE, done |-> FALSE])
      first == TrimIsEmpty(st.hl_block)
      prefix == IF first /\ search_path(st.cur_word) THEN COMMAND ELSE st.prefix
      formatted == IF st.cur_word = <<>> THEN <<>>
                   ELSE IF first THEN <<prefix>> \o st.cur_word \o <<RESET>>
                   ELSE <<RESET>> \o st.cur_word \o <<RESET>>
  IN [hl_block |-> st.hl_block \o formatted, line |-> st.line]

\* highlight: blocks are taken until the line is used up
RECURSIVE Highlight(_)
Highlight(line) ==
  IF line = <<>> THEN <<>>
  ELSE LET one == highlight_one(line) IN one.hl_block \o Highlight(one.line)

\* The characters lines are typed from
LineChars == {"a", " ", ";", "\\", "$", "{", "}", DQ, "'"}

MaxLineLen == 4

HighlightInputs == StringsUpTo(LineChars, MaxLineLen)

\* The editor asks for the highlighted form of the line being edited
HighlightLine ==
  /\ ~panicked
  /\ last.op = "highlight_call"
  /\ last' = [op |-> "highlight", line |-> last.line, out |-> Highlight(last.line)]
  /\ UNCHANGED <<shellenv, cwd, panicked, nonEnv>>

----------------------------------------------------------------------------
(* The prompt: prompt::run *)

\* max_history_size: the history keeps the newest MaxHist lines
MaxHist == 2

\* What the user can type at the prompt
PromptLines == Values

\* History::add with hist_ignore_dupes on: an empty line and a repeat of the
\* newest line are not added; a full history drops its oldest line
HistoryAdd(h, line) ==
  IF line = <<>> \/ (h # <<>> /\ h[Len(h)] = line) THEN h
  ELSE IF Len(h) >= MaxHist THEN Append(Tail(h), line)
  ELSE Append(h, line)

\* enter_prompt and leave_prompt: the shell's record of being at the prompt
enter_prompt == TRUE

leave_prompt == FALSE

\* run returns to its caller
PromptReturn(ret, cause, line) ==
  /\ promptPc' = "returned"
  /\ last' = [op |-> "prompt_run", ret |-> ret, cause |-> cause, line |-> line]

\* run is called: write_meta(|m| m.enter_prompt())
PromptEnter ==
  /\ ~panicked
  /\ promptPc \in {"idle", "returned"}
  /\ inPrompt' = enter_prompt
  /\ promptPc' = "init"
  /\ last' = [op |-> "prompt_run", ret |-> "pending", cause |-> "none", line |-> <<>>]
  /\ UNCHANGED <<shellenv, cwd, panicked, subVars, procVars, history>>

\* let mut rl = init_prompt()?  : the editor is built, or init_prompt fails
\* and run returns its error, or the process exits (an invalid history size,
\* an editor that cannot be created)
PromptInit(res) ==
  /\ ~panicked
  /\ promptPc = "init"
  /\ CASE res = "Ok" -> promptPc' = "hist" /\ UNCHANGED last
       [] res = "Err" -> PromptReturn("Err", "init_prompt", <<>>)
       [] OTHER -> promptPc' = "exited" /\
                   last' = [op |-> "prompt_run", ret |-> "exit", cause |-> "init_prompt", line |-> <<>>]
  /\ UNCHANGED <<shellenv, cwd, panicked, subVars, procVars, inPrompt, history>>

\* let hist_path = read_vars(..)?.unwrap_or_else(..) : HIST_FILE, or
\* $HOME/.oxide_hist; the read fails, or HOME is unset and unwrap panics
PromptHistPath(res) ==
  /\ ~panicked
  /\ promptPc = "hist"
  /\ CASE res = "Ok" -> promptPc' = "expand" /\ UNCHANGED <<last, panicked>>
       [] res = "Err" -> PromptReturn("Err", "read_vars", <<>>) /\ UNCHANGED panicked
       [] OTHER -> panicked' = TRUE /\ UNCHANGED <<promptPc, last>>
  /\ UNCHANGED <<shellenv, cwd, subVars, procVars, inPrompt, history>>

\* let prompt = expand::expand_prompt()?
PromptExpand(res) ==
  /\ ~panicked
  /\ promptPc = "expand"
  /\ IF res = "Ok" THEN promptPc' = "readline" /\ UNCHANGED last
     ELSE PromptReturn("Err", "expand_prompt", <<>>)
  /\ UNCHANGED <<shellenv, cwd, panicked, subVars, procVars, inPrompt, history>>

\* match rl.readline(&prompt): each of the four arms leaves the prompt first;
\* ok tells whether the fallible call that follows (saving the history,
\* sending SIGQUIT) succeeds
PromptReadline(res, line, ok) ==
  /\ ~panicked
  /\ promptPc = "readline"
  /\ inPrompt' = leave_prompt
  /\ CASE res = "Line" /\ line # <<>> /\ ok ->
            /\ history' = HistoryAdd(history, line)
            /\ shellenv' = [shellenv EXCEPT !.last_input = Some(line)]
            /\ PromptReturn("Ok", "line", line)
       [] res = "Line" /\ line # <<>> /\ ~ok ->
            /\ PromptReturn("Err", "history", <<>>)
            /\ UNCHANGED <<shellenv, history>>
       [] res = "Line" /\ line = <<>> ->
            /\ PromptReturn("Ok", "line", <<>>)
            /\ UNCHANGED <<shellenv, history>>
       [] res = "Interrupted" ->
            /\ PromptReturn("Ok", "interrupted", <<>>)
            /\ UNCHANGED <<shellenv, history>>
       [] res = "Eof" ->
            /\ PromptReturn(IF ok THEN "Ok" ELSE "Err", "eof", <<>>)
            /\ UNCHANGED <<shellenv, history>>
       [] OTHER ->
            /\ PromptReturn("Err", "rustyline", <<>>)
            /\ UNCHANGED <<shellenv, history>>
  /\ UNCHANGED <<cwd, panicked, subVars, procVars>>

----------------------------------------------------------------------------
(* Construction *)

\* ShellEnv::new: empty flags and stores; init_env_vars sets PWD and OLDPWD
\* to the current directory.
NewShellEnv ==
  [flags |-> {},
   env_vars |-> [k \in {PWD, OLDPWD} |-> HomeDir],
   variables |-> EmptyMap,
   aliases |-> EmptyMap,
   functions |-> EmptyMap,
   parameters |-> EmptyMap,
   shopts |-> init_shopts,
   last_input |-> None,
   code |-> 0]

NoOp == [op |-> "new", key |-> <<>>, val |-> <<>>, ret |-> "Ok"]

InitShell ==
  /\ shellenv = NewShellEnv
  /\ cwd = HomeDir
  /\ panicked = FALSE
  /\ subPc = "idle"
  /\ snapshot = NewShellEnv
  /\ fdTable = StdFds
  /\ out = <<>>
  /\ procs = [p \in {ShellPid} |-> [pgid |-> ShellPid, kind |-> "shell", st |-> "running"]]
  /\ job = None
  /\ frame = None
  /\ image = "shell"
  /\ promptPc = "idle"
  /\ inPrompt = FALSE
  /\ history = <<>>

Init == last = NoOp /\ InitShell

\* A shell about to evaluate one test call
InitTest == (\E tokens \in TestCalls : last = [op |-> "test_call", args |-> tokens]) /\ InitShell

\* A shell about to format the output of one echo call
InitEcho == (\E words \in EchoCalls : last = [op |-> "echo_call", words |-> words]) /\ InitShell

\* A line editor about to validate one input line
InitValidate ==
  (\E input \in ValidatorInputs : last = [op |-> "validate_call", input |-> input]) /\ InitShell

NextLogic ==
  \/ \E k \in LogicNames, v \in Values : SetAlias(k, v)
  \/ \E k \in LogicNames : RemoveAlias(k)
  \/ \E k \in LogicNames, b \in Nodes : SetFunction(k, b)
  \/ \E k \in LogicNames : RemoveFunction(k)
  \/ \E f \in EnvFlags, on \in BOOLEAN : ModFlags(f, on)

SpecLogic == Init /\ [][NextLogic]_vars

\* A caller looks a name up; the answer is kept in last.got
LookupVariable(key) ==
  /\ ~panicked
  /\ last' = [op |-> "get_variable", key |-> key, val |-> <<>>, ret |-> "Ok",
              got |-> GetVariable(shellenv, key)]
  /\ UNCHANGED <<shellenv, cwd, panicked, nonEnv>>

NextVars ==
  \/ \E k \in VarKeys : LookupVariable(k)
  \/ \E k \in VarKeys, v \in Values : SetVariable(k, v)
  \/ \E k \in VarKeys, v \in Values : ExportVariable(k, v)
  \/ \E k \in VarKeys : RemoveVariable(k)
  \/ \E v \in {<<"a">>} : SetParameter(<<"1">>, v)

SpecVars == Init /\ [][NextVars]_vars

\* The three mutators that take a possibly quoted value, on one name each
NextQuote ==
  \/ \E v \in Values : SetVariable(<<"x">>, v)
  \/ \E v \in Values : ExportVariable(<<"x">>, v)
  \/ \E v \in Values : SetAlias(<<"x">>, v)

SpecQuote == Init /\ [][NextQuote]_vars

NextParams ==
  \/ \E k \in ParamKeys, v \in ParamVals : SetParameter(k, v)
  \/ ClearPosParameters

SpecParams == Init /\ [][NextParams]_vars

\* The accessors and mutators called with any argument, an empty key included
NextTotal ==
  \/ \E v \in Values : SetVariable(<<"x">>, v)
  \/ \E k \in {<<"1">>, <<"x">>, <<>>}, v \in ParamVals : SetParameter(k, v)
  \/ \E k \in ShoptNames : GetShopt(k)
  \/ \E v \in ShoptValues : SetShopt(NoSuchOpt, v)

SpecTotal == Init /\ [][NextTotal]_vars

NextDir ==
  \/ \E p \in Paths : ChangeDir(p)
  \/ \E a \in CdArgs : Cd(a)

SpecDir == Init /\ [][NextDir]_vars

\* Commands run at the prompt or inside the subshell body
NextSubsh ==
  \/ \E a \in SubshArgvs, ok \in BOOLEAN : EnterInternalSubshell(a, ok)
  \/ SubshellBodyOk
  \/ SubshellBodyErr
  \/ \E st \in ExitCodes : SetCode(st)
  \/ \E v \in {<<>>, <<"a">>} : ExportVariable(<<"x">>, v)
  \/ \E v \in {<<"a">>} : SetAlias(<<"f">>, v)
  \/ \E on \in BOOLEAN : ModFlags("NO_ALIAS", on)

SpecSubsh == Init /\ [][NextSubsh]_vars

\* The echo calls of the process-level specification
ProcEchoCalls ==
  {<<>>, << <<"a">> >>, << <<"-", "r">>, <<"a">> >>, << <<"-", "n">>, <<"a">> >>}

NextProc ==
  \/ \E a \in AliasArgLists, r \in Redirs, ok \in BOOLEAN : Alias(a, r, ok)
  \/ \E r \in Redirs, ok \in BOOLEAN : Pwd(r, ok)
  \/ \E w \in ProcEchoCalls, r \in Redirs, nf, bg, aok, fok, sok \in BOOLEAN :
       Echo(w, r, nf, bg, aok, fok, sok)
  \/ \E pid \in DOMAIN procs : EchoChild(pid)
  \/ \E ip, mok, aok, fok, eok \in BOOLEAN : HandleExternalSubshell(ip, mok, aok, fok, eok)
  \/ \E pid \in DOMAIN procs, eok \in BOOLEAN : SubshellChild(pid, eok)
  \/ \E pid \in DOMAIN procs, st \in ExitCodes : ScriptExit(pid, st)
  \/ FgReturn
  \/ \E pid \in DOMAIN procs : Reap(pid)

SpecProc == Init /\ [][NextProc]_vars

NextSource ==
  \/ \E f \in SourceFiles : SourceFile(f)
  \/ \E fs \in SourceArgLists : Source(fs)

SpecSource == Init /\ [][NextSource]_vars

InitHighlight ==
  (\E line \in HighlightInputs : last = [op |-> "highlight_call", line |-> line]) /\ InitShell

NextHighlight == HighlightLine

SpecHighlight == InitHighlight /\ [][NextHighlight]_vars

\* The main loop calls prompt::run again and again
NextPrompt ==
  \/ PromptEnter
  \/ \E res \in {"Ok", "Err", "Exit"} : PromptInit(res)
  \/ \E res \in {"Ok", "Err", "Panic"} : PromptHistPath(res)
  \/ \E res \in {"Ok", "Err"} : PromptExpand(res)
  \/ \E res \in {"Line", "Interrupted", "Eof", "Error"}, line \in PromptLines, ok \in BOOLEAN :
       PromptReadline(res, line, ok)

SpecPrompt == Init /\ [][NextPrompt]_vars

NextValidate == ValidateLine

SpecValidate == InitValidate /\ [][NextValidate]_vars

NextEcho == EchoFormat

SpecEcho == InitEcho /\ [][NextEcho]_vars

NextTest == TestBuiltin

SpecTest == InitTest /\ [][NextTest]_vars

----------------------------------------------------------------------------
(* C1: no name is at the same time a key of aliases and a key of functions,
   and a set_alias / set_function that collides with the other store fails
   and leaves both maps unchanged. *)
C1_AliasAndFunctionNamesDisjoint ==
  (DOMAIN shellenv.aliases) \cap (DOMAIN shellenv.functions) = {}

----------------------------------------------------------------------------
(* C5 (as stated): export_variable(name, v) followed by get_variable(name)
   returns v when v is non-empty, and None when v is the empty string, the
   name being in neither variables nor env_vars. *)
C5_ExportThenGetReturnsValue ==
  last.op = "export_variable" =>
    IF last.val # <<>>
    THEN GetVariable(shellenv, last.key) = Some(last.val)
    ELSE /\ GetVariable(shellenv, last.key) = None
         /\ last.key \notin DOMAIN shellenv.variables
         /\ last.key \notin DOMAIN shellenv.env_vars

\* t is v without its leading and trailing double quotes
IsTrimmedOf(t, v) ==
  /\ ~StartsWithDQ(t)
  /\ ~EndsWithDQ(t)
  /\ \E i, j \in 0..Len(v) :
       /\ i + j <= Len(v)
       /\ t = SubSeq(v, i + 1, Len(v) - j)
       /\ \A n \in 1..i : v[n] = DQ
       /\ \A n \in (Len(v) - j + 1)..Len(v) : v[n] = DQ

(* C5 (amended): after export_variable(name, v), with t the value v without
   its leading and trailing double quotes: when t is non-empty
   get_variable(name) returns t; when t is empty the name is in neither
   variables nor env_vars and get_variable(name) returns what parameters
   holds for the name (None when it holds nothing). *)
C5_ExportThenGetReturnsTrimmed ==
  last.op = "export_variable" =>
    \A t \in Values :
      IsTrimmedOf(t, last.val) =>
        IF t # <<>>
        THEN GetVariable(shellenv, last.key) = Some(t)
        ELSE /\ last.key \notin DOMAIN shellenv.variables
             /\ last.key \notin DOMAIN shellenv.env_vars
             /\ GetVariable(shellenv, last.key) = GetParameter(shellenv, last.key)

\* An export of a value made of quotes only, on a name that is also a
\* positional parameter: the name left both stores and the lookup falls
\* through to the parameter.
C5_Witness ==
  /\ last.op = "export_variable"
  /\ last.val = <<DQ, DQ>>
  /\ last.key = <<"1">>
  /\ last.key \notin DOMAIN shellenv.variables
  /\ GetVariable(shellenv, last.key) = Some(<<"a">>)

----------------------------------------------------------------------------
\* The values of the keys ks of params, in numeric order, joined with single spaces
RECURSIVE JoinInOrder(_, _)
JoinInOrder(params, ks) ==
  IF ks = {} THEN <<>>
  ELSE LET k == CHOOSE x \in ks : \A y \in ks : StrToNat(x) <= StrToNat(y)
           rest == ks \ {k}
       IN IF rest = {} THEN params[k]
          ELSE params[k] \o <<SP>> \o JoinInOrder(params, rest)

(* C6: the value of positional parameter "@" equals the values of the numeric
   keys currently present, joined in numeric order with single spaces. *)
C6_AtIsJoinOfNumericKeys ==
  LET params == shellenv.parameters
      at == IF AT \in DOMAIN params THEN params[AT] ELSE <<>>
  IN at = JoinInOrder(params, NumericKeys(params))

----------------------------------------------------------------------------
(* C7: after a successful directory change (cd or change_dir) from an
   environment where PWD = p to directory d, PWD = d and OLDPWD = p. *)
C7_DirChangeSetsPwdAndOldpwd ==
  (last.op \in {"cd", "change_dir"} /\ last.ret = "Ok" /\ IsSome(last.pre.pwd)) =>
    /\ GetVariable(shellenv, PWD) = Some(cwd)
    /\ GetVariable(shellenv, OLDPWD) = last.pre.pwd

(* C8: when the underlying chdir fails, cd / change_dir returns an error and
   PWD and OLDPWD keep, in both variables and env_vars, the values they had
   before the call. *)
C8_FailedDirChangeKeepsPwd ==
  (last.op \in {"cd", "change_dir"} /\ last.ret = "Err") =>
    DirVars(shellenv) = last.pre

----------------------------------------------------------------------------
(* C2: when handle_internal_subshell returns, on every exit path, the shell
   state (variables, env vars, aliases, functions, positional parameters,
   flags) equals the snapshot taken on entry. *)
C2_SubshellRestoresSnapshot ==
  last.op = "handle_internal_subshell" =>
    [shellenv EXCEPT !.code = 0] = [snapshot EXCEPT !.code = 0]

----------------------------------------------------------------------------
(* C3: when a job is handed to the job table or the foreground handler,
   every child process recorded in it is a member of the process group
   whose id is the job's pgid, and that pgid is the pid of the first child. *)
C3_JobChildrenInJobPgid ==
  IsSome(job) =>
    /\ job.some.pgid = job.some.children[1]
    /\ \A c \in JobChildren(job) : procs[c].pgid = job.some.pgid

(* C4: after alias, pwd or echo returns to the shell, the shell's descriptor
   table is the one it had before the redirections were activated. *)
C4_BuiltinRestoresDescriptors ==
  (last.op \in {"alias", "pwd", "echo"} /\ last.ret = "Ok") => fdTable = last.pre

----------------------------------------------------------------------------
\* The value the grammar gives a primary on its own
PrimaryValue(p) ==
  IF Len(p) = 1 THEN p[1] # <<>>
  ELSE IF Len(p) = 2 THEN UnaryHolds(p[1], p[2])
  ELSE CmpHolds(p[2], p[1], p[3])

(* C9: for well-formed primaries P and Q, `P -a Q` evaluates to P and Q and
   `P -o Q` to P or Q; when P is false under -a, or true under -o, the result
   is P's value for every Q, no token of Q is consumed and no error is raised. *)
C9_ConnectivesCombinePrimaries ==
  last.op = "test" =>
    \A p \in TestPrimaries, c \in {TokA, TokO} :
      /\ \A q \in TestPrimaries :
           last.args = p \o <<c>> \o q =>
             /\ last.res.kind = "Ok"
             /\ last.res.val = IF c = TokA THEN PrimaryValue(p) /\ PrimaryValue(q)
                                           ELSE PrimaryValue(p) \/ PrimaryValue(q)
      /\ \A q \in TestPrimaries \cup {<<TokEqEq>>, <<Flag("n")>>} :
           (last.args = p \o <<c>> \o q /\ PrimaryValue(p) = (c = TokO)) =>
             /\ last.res.kind = "Ok"
             /\ last.res.val = PrimaryValue(p)
             /\ last.res.rest = Reverse(q)

(* C10: test with no tokens is false; test with exactly one token is true
   when the token is a non-empty string and false when it is the empty
   string; none of these cases is an error. (A lone "]" is left aside.) *)
C10_ZeroOrOneTokenNeverErrors ==
  (last.op = "test" /\ Len(last.args) <= 1 /\ last.args # <<RB>>) =>
    /\ last.res.kind = "Ok"
    /\ last.res.val = (Len(last.args) = 1 /\ last.args[1] # <<>>)

\* '==' is not a valid comparison operator for test calls
EqEqMessage == "'==' is not a valid comparison operator for test calls. Use '=' instead."

\* The operands of a string comparison: the empty string, a word, and
\* strings that look like an integer or name an existing path
StringOperands == {<<>>, <<"a">>, <<"1">>, <<"2">>, RootDir}

(* C11: a test expression with `==` in operator position, and the one-token
   expression `==`, is rejected with the syntax error that tells the user to
   use `=`; it never yields a boolean. *)
C11_DoubleEqualsIsRejected ==
  (/\ last.op = "test"
   /\ \/ last.args = <<TokEqEq>>
      \/ /\ Len(last.args) = 3
         /\ last.args[1] \in StringOperands
         /\ last.args[2] = TokEqEq
         /\ last.args[3] \in StringOperands)
  => (last.res.kind = "Err" /\ last.res.msg = EqEqMessage)

(* C12: for all strings a and b, including the empty string and strings that
   look like integers or existing paths, `a = b` is true exactly when a and b
   are equal and `a != b` is true exactly when they differ. *)
C12_StringComparisonIsEquality ==
  (/\ last.op = "test"
   /\ Len(last.args) = 3
   /\ last.args[1] \in StringOperands
   /\ last.args[2] \in {TokEq, TokNe}
   /\ last.args[3] \in StringOperands)
  => /\ last.res.kind = "Ok"
     /\ last.res.val = IF last.args[2] = TokEq THEN last.args[1] = last.args[3]
                                               ELSE last.args[1] # last.args[3]

----------------------------------------------------------------------------
\* An option word of echo: a word that starts with '-'
IsDashWord(w) == w # <<>> /\ w[1] = "-"

\* The argument words of an echo call: the words that are not option words,
\* in order, each without its surrounding quotes
RECURSIVE ArgWordsOf(_)
ArgWordsOf(words) ==
  IF words = <<>> THEN <<>>
  ELSE IF IsDashWord(Head(words)) THEN ArgWordsOf(Tail(words))
  ELSE <<TrimQuotes(Head(words))>> \o ArgWordsOf(Tail(words))

RECURSIVE JoinBySpace(_)
JoinBySpace(ws) ==
  IF ws = <<>> THEN <<>>
  ELSE IF Len(ws) = 1 THEN ws[1]
  ELSE ws[1] \o <<SP>> \o JoinBySpace(Tail(ws))

\* -n was given: some option word has an 'n' with only option characters before it
NGiven(words) ==
  \E i \in 1..Len(words) :
    /\ IsDashWord(words[i])
    /\ \E j \in 2..Len(words[i]) :
         words[i][j] = "n" /\ \A k \in 2..(j - 1) : IsEchoOpt(words[i][k])

(* C13: the output of echo is its argument words (the words that are not
   option words), each exactly once and in order, joined by single spaces,
   followed by a newline unless -n was given. *)
C13_EchoOutputIsJoinedArguments ==
  last.op = "echo_output" =>
    last.output = JoinBySpace(ArgWordsOf(last.words))
                    \o (IF NGiven(last.words) THEN <<>> ELSE <<NL>>)

\* `echo -n a b a` has been formatted as exactly "a b a"
C13_Witness ==
  /\ last.op = "echo_output"
  /\ last.words = <<<<"-", "n">>, <<"a">>, <<"b">>, <<"a">>>>
  /\ last.output = <<"a", " ", "b", " ", "a">>

----------------------------------------------------------------------------
(* C14: for each echo invocation the output is written to the target
   descriptor exactly once: by the forked child when NO_FORK is clear, and by
   the parent itself, with no child also writing it, when NO_FORK is set. *)
C14_EchoWritesOnce ==
  (last.op = "echo" /\ last.ret = "Ok") =>
    /\ Len(out) = 1
    /\ out[1].by = IF last.no_fork THEN "parent" ELSE "child"

----------------------------------------------------------------------------
(* C15: the exit status the shell holds after an internal subshell whose body
   ran is the exit status of the last command executed inside the body. *)
C15_SubshellStatusIsInnerStatus ==
  (last.op = "handle_internal_subshell" /\ "inner" \in DOMAIN last) =>
    shellenv.code = last.inner

----------------------------------------------------------------------------
\* The error sourcing one file must surface, "Ok" when there is none
SourceOutcome(file) ==
  IF ~file.open \/ ~file.read THEN "IoError"
  ELSE IF file.parse = "Err" THEN "ParseError"
  ELSE IF file.walk = "Err" THEN "ExecError"
  ELSE "Ok"

\* The files up to and including the first that fails
RECURSIVE UpToFirstFailure(_)
UpToFirstFailure(files) ==
  IF files = <<>> THEN <<>>
  ELSE IF ~Head(files).is_file \/ SourceOutcome(Head(files)) # "Ok" THEN <<Head(files)>>
  ELSE <<Head(files)>> \o UpToFirstFailure(Tail(files))

(* C20: source_file returns an I/O error when the file cannot be opened or
   read, a parse error when the contents do not parse and an exec error when
   execution fails; the source builtin returns an error exactly when one of
   its files fails. *)
C20_SourceSurfacesErrors ==
  /\ last.op = "source_file" => last.ret = SourceOutcome(last.files[1])
  /\ last.op = "source" =>
       LET tried == UpToFirstFailure(last.files)
           failed == tried # <<>> /\ (~tried[Len(tried)].is_file
                                       \/ SourceOutcome(tried[Len(tried)]) # "Ok")
       IN (last.ret # "Ok") = failed

----------------------------------------------------------------------------
(* C19: the alias builtin prints, for a bare name that is a defined alias,
   the line `name=value`; it prints nothing and raises no error for a name
   that is not an alias; and it stores a `name=value` assignment with the
   quotes removed. *)
C19_AliasPrintsNameEqualsValue ==
  (last.op = "alias" /\ last.ret = "Ok" /\ Len(last.args) = 1) =>
    LET arg == last.args[1] IN
    IF arg.kind = "arg_assign"
    THEN MapGet(shellenv.aliases, arg.name) = Some(TrimQuotes(arg.body))
    ELSE IF IsSome(GetAlias(shellenv, arg.name))
    THEN /\ Len(out) = 1
         /\ out[1].text = arg.name \o <<"=">> \o GetAlias(shellenv, arg.name).some \o <<NL>>
    ELSE out = <<>>

----------------------------------------------------------------------------
\* The opening delimiter a closing delimiter matches
OpenerOf(ch) == IF ch = ")" THEN "(" ELSE IF ch = "}" THEN "{" ELSE "["

\* Some closing delimiter from position i on does not match the most recent
\* unclosed opening delimiter, or has none (for text without quotes and escapes)
RECURSIVE HasUnmatchedCloser(_, _, _)
HasUnmatchedCloser(input, i, open) ==
  IF i > Len(input) THEN FALSE
  ELSE IF input[i] \in {"(", "{", "["} THEN HasUnmatchedCloser(input, i + 1, Append(open, input[i]))
  ELSE IF input[i] \in {")", "}", "]"}
  THEN IF open = <<>> \/ open[Len(open)] # OpenerOf(input[i]) THEN TRUE
       ELSE HasUnmatchedCloser(input, i + 1, SubSeq(open, 1, Len(open) - 1))
  ELSE HasUnmatchedCloser(input, i + 1, open)

(* C16: the validator returns Invalid for every input that contains a
   closing delimiter `)`, `}` or `]` that does not match the most recent
   unclosed opening delimiter or has no opener at all. *)
C16_UnmatchedCloserIsInvalid ==
  (last.op = "validate" /\ last.input \in DelimiterLines
     /\ HasUnmatchedCloser(last.input, 1, <<>>))
  => last.result = "Invalid"

(* C17: the validator returns Incomplete for every input that leaves a
   control construct unclosed, including a construct nested in command
   position after `then`, `do` or `else`. *)
C17_UnclosedConstructIsIncomplete ==
  (last.op = "validate" /\ last.input \in UnclosedConstructs) => last.result = "Incomplete"

(* C18: the validator returns Valid for every complete, properly nested
   control construct of each family: if, for, while, until, select, case. *)
C18_CompleteConstructIsValid ==
  (last.op = "validate" /\ last.input \in CompleteConstructs) => last.result = "Valid"

----------------------------------------------------------------------------
(* C21: get_variable(name) returns the value from variables when the name is
   there, otherwise the value from env_vars, otherwise the value from
   parameters, otherwise None; a name present in several stores resolves to
   the earliest store in that order. *)
C21_LookupOrder ==
  last.op = "get_variable" =>
    LET k == last.key IN
    /\ k \in DOMAIN shellenv.variables => last.got = Some(shellenv.variables[k])
    /\ (k \notin DOMAIN shellenv.variables /\ k \in DOMAIN shellenv.env_vars)
         => last.got = Some(shellenv.env_vars[k])
    /\ (k \notin DOMAIN shellenv.variables /\ k \notin DOMAIN shellenv.env_vars
          /\ k \in DOMAIN shellenv.parameters)
         => last.got = Some(shellenv.parameters[k])
    /\ (k \notin DOMAIN shellenv.variables /\ k \notin DOMAIN shellenv.env_vars
          /\ k \notin DOMAIN shellenv.parameters)
         => last.got = None

\* A lookup of a name held by all three stores, with a different value in
\* variables than in env_vars, answered from variables.
C21_Witness ==
  /\ last.op = "get_variable"
  /\ last.key \in DOMAIN shellenv.variables
  /\ last.key \in DOMAIN shellenv.env_vars
  /\ last.key \in DOMAIN shellenv.parameters
  /\ shellenv.variables[last.key] # shellenv.env_vars[last.key]
  /\ last.got = Some(shellenv.variables[last.key])

----------------------------------------------------------------------------
(* C22: the external subshell path calls execve only in a child freshly
   forked for it: the process that called handle_external_subshell is never
   replaced by the script, whatever the value of in_pipe, and goes on to wait
   for the child through the job table. *)
C22_ExecveOnlyInForkedChild ==
  /\ image = "shell"
  /\ last.op = "handle_external_subshell" => last.ret # "execve"

----------------------------------------------------------------------------
\* The truth table of a connective
Connective(c, x, y) == IF c = TokA THEN x /\ y ELSE x \/ y

(* C23: a chain of test connectives groups left to right: for all truth
   values of primaries P, Q, R and all op1, op2 in {-a, -o}, `P op1 Q op2 R`
   evaluates to `(P op1 Q) op2 R`. *)
C23_ConnectivesGroupLeftToRight ==
  last.op = "test" =>
    \A p \in ChainPrimaries, q \in ChainPrimaries, r \in ChainPrimaries :
      \A c1 \in {TokA, TokO}, c2 \in {TokA, TokO} :
        last.args = p \o <<c1>> \o q \o <<c2>> \o r =>
          /\ last.res.kind = "Ok"
          /\ last.res.val =
               Connective(c2, Connective(c1, PrimaryValue(p), PrimaryValue(q)), PrimaryValue(r))

----------------------------------------------------------------------------
(* C24: in a test expression `!` negates only the primary that follows it:
   `! P -a Q` evaluates to (not P) and Q, and `! P -o Q` to (not P) or Q, for
   all truth values of P and Q. *)
C24_BangNegatesNextPrimaryOnly ==
  last.op = "test" =>
    \A p \in ChainPrimaries, q \in ChainPrimaries, c \in {TokA, TokO} :
      last.args = <<Bang>> \o p \o <<c>> \o q =>
        /\ last.res.kind = "Ok"
        /\ last.res.val = Connective(c, ~PrimaryValue(p), PrimaryValue(q))

----------------------------------------------------------------------------
\* 32-bit integers: both ends of the range, zero and small values of either sign
I32Samples == {0 - I32Max - 1, 0 - 1, 0, 1, 2, I32Max}

\* A negative integer's digits, computed without negating it
RECURSIVE NegDigits(_)
NegDigits(n) ==
  LET d == (10 - (n % 10)) % 10 IN
  IF n > 0 - 10 THEN <<Digits[d + 1]>>
  ELSE NegDigits((n + d) \div 10) \o <<Digits[d + 1]>>

\* An integer written in decimal
I32Text(n) == IF n < 0 THEN <<"-">> \o NegDigits(n) ELSE NatToStr(n)

\* The arithmetic comparison an operator stands for
Arith(op, a, b) ==
  CASE op = <<"-", "e", "q">> -> a = b
    [] op = <<"-", "n", "e">> -> a # b
    [] op = <<"-", "l", "t">> -> a < b
    [] op = <<"-", "l", "e">> -> a <= b
    [] op = <<"-", "g", "t">> -> a > b
    [] op = <<"-", "g", "e">> -> a >= b

(* C25: for all 32-bit integers a and b (negative ones included) and each
   operator op in -eq, -ne, -lt, -le, -gt, -ge, the test expression written
   `a op b` evaluates to the arithmetic comparison with a as left operand and
   b as right operand. *)
C25_IntegerComparisonIsArithmetic ==
  (last.op = "test" /\ Len(last.args) = 3) =>
    \A op \in IntCmps :
      last.args[2] = op =>
        \A a \in I32Samples, b \in I32Samples :
          (last.args[1] = I32Text(a) /\ last.args[3] = I32Text(b)) =>
            /\ last.res.kind = "Ok"
            /\ last.res.val = Arith(op, a, b)

\* -2147483648 -lt -1 was evaluated and is true
C25_Witness ==
  /\ last.op = "test"
  /\ last.args = <<I32Text(0 - I32Max - 1), <<"-", "l", "t">>, <<"-", "1">>>>
  /\ last.res.kind = "Ok"
  /\ last.res.val

----------------------------------------------------------------------------
(* C26: when an operand of a test predicate cannot be converted to the type
   the predicate needs (a path with no metadata for a file flag, a
   non-integer for -t, a non-integer on either side of an integer
   comparison), the predicate evaluates to false and test returns no error.
   The word a is neither an integer nor an existing path. *)
C26_FailedConversionIsFalse ==
  last.op = "test" =>
    /\ \A f \in {Flag("t")} \cup MetaFlags :
         last.args = <<f, <<"a">>>> => (last.res.kind = "Ok" /\ ~last.res.val)
    /\ \A op \in IntCmps :
         last.args \in {<<<<"1">>, op, <<"a">>>>, <<<<"a">>, op, <<"1">>>>, <<<<"a">>, op, <<"a">>>>}
           => (last.res.kind = "Ok" /\ ~last.res.val)

----------------------------------------------------------------------------
(* C27: a unary test flag (-t, -b, -c, -d, -f, -g, -G, -h, -L, -k, -N, -O,
   -p, -s, -S, -u, -n, -z, -e, -r, -w, -x) that has no operand after it makes
   test return a missing-operand error rather than a boolean, also when it is
   reached after a -a / -o connective (the connective did not short-circuit:
   the primary before -a is true, the one before -o is false). *)
C27_FlagWithoutOperandIsError ==
  last.op = "test" =>
    \A f \in UnaryFlags :
      /\ last.args = <<f>> =>
           (last.res.kind = "Err" /\ last.res.msg = "Missing operand in this test call")
      /\ \A p \in ChainPrimaries, c \in {TokA, TokO} :
           (last.args = p \o <<c, f>> /\ PrimaryValue(p) = (c = TokA)) =>
             (last.res.kind = "Err" /\ last.res.msg = "Missing operand in this test call")

\* `-n a -a -S` was evaluated: the flag after the connective has no operand
C27_Witness ==
  /\ last.op = "test"
  /\ last.args = <<Flag("n"), <<"a">>, TokA, Flag("S")>>
  /\ last.res.kind = "Err"

----------------------------------------------------------------------------
(* C28: for existing files a and b, the test expression `a -ef b` is true
   exactly when a and b are on the same device, `a -nt b` exactly when
   mtime(a) > mtime(b), and `a -ot b` exactly when mtime(a) < mtime(b); each
   of the three operators is accepted. *)
C28_FileComparisons ==
  (last.op = "test" /\ Len(last.args) = 3) =>
    \A a \in DOMAIN FileMeta, b \in DOMAIN FileMeta :
      (last.args[1] = a /\ last.args[3] = b) =>
        /\ last.args[2] = TokEf =>
             (last.res.kind = "Ok" /\ last.res.val = (FileMeta[a].dev = FileMeta[b].dev))
        /\ last.args[2] = <<"-", "n", "t">> =>
             (last.res.kind = "Ok" /\ last.res.val = (FileMeta[a].mtime > FileMeta[b].mtime))
        /\ last.args[2] = <<"-", "o", "t">> =>
             (last.res.kind = "Ok" /\ last.res.val = (FileMeta[a].mtime < FileMeta[b].mtime))

----------------------------------------------------------------------------
\* What a caller of test sees of an evaluation: the boolean or the error
Outcome(res) == [kind |-> res.kind, val |-> res.val, msg |-> res.msg]

(* C29 (as stated): for every token list X, evaluating X followed by one
   trailing `]` gives the same boolean or the same error as evaluating X
   alone; a call whose only token is `]` evaluates to false. *)
C29_TrailingBracketIsIgnored ==
  last.op = "test" =>
    /\ last.args = <<RB>> => (last.res.kind = "Ok" /\ ~last.res.val)
    /\ (last.args # <<>> /\ last.args[Len(last.args)] = RB) =>
         Outcome(last.res) = Outcome(Test(Reverse(SubSeq(last.args, 1, Len(last.args) - 1))))

(* C29 (amended): for every token list X that does not itself end with `]`,
   evaluating X followed by one trailing `]` gives the same boolean or the
   same error as evaluating X alone; a call whose only token is `]`
   evaluates to false. *)
C29_OneTrailingBracketIsIgnored ==
  last.op = "test" =>
    /\ last.args = <<RB>> => (last.res.kind = "Ok" /\ ~last.res.val)
    /\ (last.args # <<>> /\ last.args[Len(last.args)] = RB) =>
         LET X == SubSeq(last.args, 1, Len(last.args) - 1) IN
         (X = <<>> \/ X[Len(X)] # RB) =>
           Outcome(last.res) = Outcome(Test(Reverse(X)))

\* `-n a ]` was evaluated and is true, as `-n a` is
C29_Witness ==
  /\ last.op = "test"
  /\ last.args = <<Flag("n"), <<"a">>, RB>>
  /\ last.res.kind = "Ok"
  /\ last.res.val

----------------------------------------------------------------------------
(* C30: a fork failure while running an external subshell or echo is
   returned as an error of the current command and the shell process keeps
   running (no panic or abort of the shell); an execve failure in the forked
   child makes that child report the failure on stderr and exit with status
   127. *)
C30_ForkAndExecFailures ==
  /\ (last.op \in {"handle_external_subshell", "echo"} /\ last.ret \in {"Err", "panic"}
       /\ last.cause = "fork")
       => (last.ret = "Err" /\ ~panicked)
  /\ \A pid \in DOMAIN procs :
       (procs[pid].kind = "subshell" /\ procs[pid].exec = "failed")
         => procs[pid].exit = 127

----------------------------------------------------------------------------
\* The option characters echo sees in one word: those after the dash, up to
\* the first character that is not an option
RECURSIVE SeenInWord(_, _)
SeenInWord(w, i) ==
  IF i > Len(w) \/ ~IsEchoOpt(w[i]) THEN <<>> ELSE <<w[i]>> \o SeenInWord(w, i + 1)

\* The option characters echo sees in a call, in order
RECURSIVE SeenOptions(_)
SeenOptions(words) ==
  IF words = <<>> THEN <<>>
  ELSE (IF IsDashWord(Head(words)) THEN SeenInWord(Head(words), 2) ELSE <<>>)
         \o SeenOptions(Tail(words))

\* The last of the characters e and E in a sequence of option characters,
\* or "none"
LastEscapeOption(opts) ==
  LET idx == {i \in 1..Len(opts) : opts[i] \in {"e", "E"}} IN
  IF idx = {} THEN "none" ELSE opts[CHOOSE i \in idx : \A j \in idx : j <= i]

(* C31: after echo has parsed any sequence of option words, the flags
   USE_ESCAPE and NO_ESCAPE are never both set, and which of the two is set
   is decided by the last -e or -E seen (last wins), also when options are
   combined in one word such as -eE or -Ee. *)
C31_EscapeFlagsExclusiveLastWins ==
  last.op = "echo_output" =>
    LET winner == LastEscapeOption(SeenOptions(last.words)) IN
    /\ ~({"USE_ESCAPE", "NO_ESCAPE"} \subseteq last.flags)
    /\ ("USE_ESCAPE" \in last.flags) = (winner = "e")
    /\ ("NO_ESCAPE" \in last.flags) = (winner = "E")

\* `echo -E -Ee -eE` was parsed: the last option seen is E
C31_Witness ==
  /\ last.op = "echo_output"
  /\ last.words = <<<<"-", "E">>, <<"-", "E", "e">>, <<"-", "e", "E">>>>
  /\ "NO_ESCAPE" \in last.flags
  /\ "USE_ESCAPE" \notin last.flags

----------------------------------------------------------------------------
\* The flag an option character other than e and E stands for
OptionFlag(ch) ==
  CASE ch = "n" -> "NO_NEWLINE"
    [] ch = "r" -> "STDERR"
    [] ch = "P" -> "EXPAND_OX_ESC"

\* The characters after the dash of the dash words of a call
CharsOfDashWords(words) ==
  {words[i][j] : <<i, j>> \in {p \in (1..Len(words)) \X (2..MaxValLen + 2) :
                                 IsDashWord(words[p[1]]) /\ p[2] <= Len(words[p[1]])}}

\* The option characters of a call that echo sees
SeenChars(words) == {SeenOptions(words)[i] : i \in 1..Len(SeenOptions(words))}

(* C36 (as stated): in echo, a word that starts with '-' never contributes
   text to the output, whether or not its characters are recognized options
   and wherever it stands among the arguments; recognized option characters
   in such a word take effect even when the word comes after ordinary
   arguments. *)
C36_DashWordsAreOptionsOnly ==
  last.op = "echo_output" =>
    /\ last.argv = ArgWordsOf(last.words)
    /\ \A ch \in {"n", "r", "P"} :
         ch \in CharsOfDashWords(last.words) => OptionFlag(ch) \in last.flags

(* C36 (amended): in echo, a word that starts with '-' never contributes
   text to the output, whether or not its characters are recognized options
   and wherever it stands among the arguments; the recognized option
   characters of such a word that stand before its first unrecognized
   character take effect, even when the word comes after ordinary arguments,
   and the characters from the first unrecognized one on have no effect. *)
C36_DashWordsAreOptionsUpToUnknown ==
  last.op = "echo_output" =>
    /\ last.argv = ArgWordsOf(last.words)
    /\ \A ch \in {"n", "r", "P"} :
         (ch \in SeenChars(last.words)) = (OptionFlag(ch) \in last.flags)

\* `echo a -nx -` was formatted: the dash words gave no text and the n
\* before the unknown x took effect
C36_Witness ==
  /\ last.op = "echo_output"
  /\ last.words = <<<<"a">>, <<"-", "n", "x">>, <<"-">>>>
  /\ last.output = <<"a">>
  /\ "NO_NEWLINE" \in last.flags

----------------------------------------------------------------------------
\* Complete lines: every quoted region is closed, and what stands in quotes
\* or after a backslash is not a delimiter or keyword of the line
QuotedComplete ==
  {QuoteBackslashInSingle, QuoteDelimsInSingle, QuoteDelimsInDouble, QuoteKeywordInSingle,
   QuoteKeywordInDouble, QuoteEscapeInDouble, QuoteEscapedBrace, QuoteEscapedDouble,
   QuoteEscapedSingle}

\* Lines whose quoted region is still open
QuotedOpen == {QuoteOpenDouble, QuoteOpenSingle}

(* C32: the validator treats quoted regions as opaque and single-quoted text
   as literal: delimiters and keywords inside quotes do not change either
   stack, a backslash inside single quotes does not escape the closing quote
   (so `'a\'` is a complete string), and a backslash inside double quotes or
   outside quotes escapes the next character. A line that is a simple command
   with such an argument is therefore Valid when its quotes are closed and
   Incomplete when a quoted region is still open. *)
C32_QuotedRegionsAreOpaque ==
  last.op = "validate" =>
    /\ last.input \in QuotedComplete => last.result = "Valid"
    /\ last.input \in QuotedOpen => last.result = "Incomplete"

----------------------------------------------------------------------------
\* A value wrapped in a pair of double quotes
IsQuoted(v) == Len(v) >= 2 /\ v[1] = DQ /\ v[Len(v)] = DQ

\* The text a value stands for: what is between the pair for a quoted value,
\* the value itself otherwise
Unquoted(v) == IF IsQuoted(v) THEN SubSeq(v, 2, Len(v) - 1) ELSE v

\* m holds v under k
Holds(m, k, v) == k \in DOMAIN m /\ m[k] = v

(* C33: values are stored unquoted: for every value wrapped in one matching
   pair of double quotes, set_variable, export_variable and set_alias store
   exactly the text between that pair, and a value without a surrounding
   pair of quotes is stored unchanged. *)
C33_ValuesStoredUnquoted ==
  /\ last.op = "set_variable" =>
       (last.ret = "Ok" /\ Holds(shellenv.variables, last.key, Unquoted(last.val)))
  /\ last.op = "export_variable" =>
       /\ last.ret = "Ok"
       /\ Holds(shellenv.variables, last.key, Unquoted(last.val))
       /\ Holds(shellenv.env_vars, last.key, Unquoted(last.val))
  /\ last.op = "set_alias" =>
       (last.ret = "Ok" /\ Holds(shellenv.aliases, last.key, Unquoted(last.val)))

----------------------------------------------------------------------------
(* C34: the test evaluator terminates on every finite token list: every call
   to test, and every recursive call made through do_log_op, removes at
   least one token from the working list before recursing, so the recursion
   depth is bounded by the number of tokens. *)
C34_TestRecursionIsBounded ==
  last.op = "test" =>
    /\ last.nesting.shrinks
    /\ last.nesting.depth <= Len(last.args)

\* `! ! !` was evaluated: three nested recursive calls for three tokens
C34_Witness ==
  /\ last.op = "test"
  /\ last.args = <<Bang, Bang, Bang>>
  /\ last.nesting.depth = 3

----------------------------------------------------------------------------
\* The tokens of a call that an evaluation has taken from the vector, in
\* textual order (a closing "]" is not counted)
Consumed(args, rest) ==
  LET body == IF args # <<>> /\ args[Len(args)] = RB THEN SubSeq(args, 1, Len(args) - 1) ELSE args
  IN SubSeq(body, 1, Len(body) - Len(rest))

(* C35: after test has evaluated one primary (a unary flag with its operand,
   an integer comparison, a string comparison), a remaining token that is
   neither -a nor -o makes test return an 'unexpected extra argument' error;
   test never returns a boolean while ignoring unconsumed tokens, except for
   the tokens skipped by a short-circuit, which follow the connective that
   was consumed last. *)
C35_ExtraTokenIsError ==
  last.op = "test" =>
    /\ \A p \in TestPrimaries, t \in TestTokens \ {TokA, TokO, RB} :
         (Len(p) >= 2 /\ last.args = p \o <<t>>) =>
           /\ last.res.kind = "Err"
           /\ last.res.msg = "Unexpected extra argument found in test call"
    /\ (last.res.kind = "Ok" /\ last.res.rest # <<>>) =>
         LET used == Consumed(last.args, last.res.rest) IN
         used # <<>> /\ used[Len(used)] \in {TokA, TokO}

\* `1 -eq 1 a` was evaluated: the token after the comparison is an error
C35_Witness ==
  /\ last.op = "test"
  /\ last.args = <<<<"1">>, <<"-", "e", "q">>, <<"1">>, <<"a">>>>
  /\ last.res.kind = "Err"
  /\ last.res.msg = "Unexpected extra argument found in test call"

----------------------------------------------------------------------------
\* A highlighted line with its colour escape sequences removed
RECURSIVE StripColours(_)
StripColours(text) ==
  IF text = <<>> THEN <<>>
  ELSE IF Head(text) \in Colours THEN StripColours(Tail(text))
  ELSE <<Head(text)>> \o StripColours(Tail(text))

(* C37: the highlighter preserves the text of the line: for every input
   line, highlight terminates and its output with the colour escape sequences
   removed equals the input, character for character (including
   single-quoted regions, variable substitutions and escapes). *)
C37_HighlightPreservesText ==
  last.op = "highlight" => StripColours(last.out) = last.line


----------------------------------------------------------------------------
(* C38: in prompt::run every enter_prompt is followed by a leave_prompt
   before run returns, on every return path: whenever run has returned, the
   shell is no longer recorded as being at the prompt. *)
C38_EveryEnterIsLeftBeforeReturn ==
  promptPc = "returned" => inPrompt = FALSE


----------------------------------------------------------------------------
(* C39: set_variable, set_parameter and get_shopt return normally, without
   panicking, for every string argument: no call of one of the three ends in
   a panic. *)
C39_AccessorsAreTotal ==
  last.op \in {"set_variable", "set_parameter", "get_shopt"} => last.ret # "panic"


----------------------------------------------------------------------------
\* What a child process finds for a name in the strings of get_cvars: the
\* text after "name=" of each string that starts so
Projected(env, key) ==
  LET prefix == key \o <<"=">> IN
  {SubSeq(e, Len(prefix) + 1, Len(e)) :
     e \in {c \in get_cvars(env) : Len(c) >= Len(prefix) /\ SubSeq(c, 1, Len(prefix)) = prefix}}

(* C40: after any sequence of export_variable, set_variable and
   remove_variable calls, for every name that is in env_vars because it was
   exported, the value get_variable returns for the name is the value that
   get_cvars hands to child processes for it. *)
C40_ShellAndChildrenAgree ==
  \A key \in VarKeys :
    key \in DOMAIN shellenv.env_vars =>
      Projected(shellenv, key) = {v \in Values : GetVariable(shellenv, key) = Some(v)}

====
